---- MODULE Spec2Model ----
(***************************************************************************)
(* Model of the ACS census map application (ACSAPIService and its callers).*)
(* ZIP codes are modelled as positive integers; the durable cache key      *)
(* `acs_2022_<zip>` is injective in the ZIP, so the ZIP itself is the key. *)
(* Time is counted in seconds (the code counts milliseconds).              *)
(***************************************************************************)
EXTENDS Integers, Sequences, FiniteSets, TLC

(***************************************************************************)
(* Program constants (ACSAPIService.constructor and literals in methods)   *)
(***************************************************************************)
cacheDuration == 90 * 24 * 60 * 60
batchSize == 30
proxyUrls == <<"https://corsproxy.io/?", "https://api.allorigins.win/raw?url=", "">>
memoryCacheSize == 500
lookupChunkSize == 300
smallBatchSize == 5

(***************************************************************************)
(* Bounds of the model                                                     *)
(***************************************************************************)
MaxInv == 2
MaxCalls == 2
MaxTicks == 2
MaxClears == 1
MemExtra == 3
MaxReAdds == 2
MaxFailures == 6
MaxBadTables == 1
MaxLoads == 2
MaxClicks == 1
MaxRings == 2

Invs == 1..MaxInv

(***************************************************************************)
(* Generic helpers                                                         *)
(***************************************************************************)
Range(s) == {s[k] : k \in DOMAIN s}

Min(a, b) == IF a < b THEN a ELSE b

EmptyMap == [z \in {} |-> 0]

\* Object.assign(a, b): keys of b overwrite keys of a
Merge(a, b) == [z \in (DOMAIN a) \cup (DOMAIN b) |-> IF z \in DOMAIN b THEN b[z] ELSE a[z]]

\* Object.entries / Object.keys of an object with integer-like keys: ascending
SortSet(S) ==
    IF S = {} THEN <<>>
    ELSE LET max == CHOOSE x \in S : \A y \in S : y <= x
         IN  SelectSeq([k \in 1..max |-> k], LAMBDA k : k \in S)

\* [...new Set(zipCodes)]: first occurrences, in input order
uniqueZips(zipCodes) ==
    LET first == {k \in DOMAIN zipCodes : \A j \in 1..(k - 1) : zipCodes[j] # zipCodes[k]}
    IN  [m \in 1..Cardinality(first) |->
            zipCodes[CHOOSE k \in first : Cardinality({j \in first : j < k}) = m - 1]]

chunkArrayOff(array, size) ==
    [k \in 1..((Len(array) + size) \div (size + 1)) |->
        SubSeq(array, (k - 1) * (size + 1) + 1, Min(k * (size + 1), Len(array)))]

\* chunkArray(array, size): consecutive slices of `size` elements
chunkArray(array, size) ==
    [k \in 1..((Len(array) + size - 1) \div size) |->
        SubSeq(array, (k - 1) * size + 1, Min(k * size, Len(array)))]

(***************************************************************************)
(* Payloads and the response table                                         *)
(***************************************************************************)
\* the {data, metadata} record parseResponse builds for one row
Payload(zip, t) == [data |-> zip, metadata |-> [zip |-> zip, fetchedAt |-> t]]

\* parseResponse(data, requestedZips): a non-array or empty table gives {},
\* otherwise one record per row whose ZIP was requested
parseResponse(data, requestedZips, t) ==
    IF data.kind = "empty" THEN EmptyMap
    ELSE [z \in (data.rows \cap Range(requestedZips)) |-> Payload(z, t)]

\* a table whose header row is not an array makes headers.indexOf raise
parseThrows(data) == data.kind = "malformed"

(***************************************************************************)
(* Memory tier: a Map, i.e. key/value pairs in insertion order             *)
(***************************************************************************)
MemKeys(mem) == {mem[k].key : k \in DOMAIN mem}

MemGet(mem, zip) == (CHOOSE k \in DOMAIN mem : mem[k].key = zip)

MapSet(mem, zip, value) ==
    IF zip \in MemKeys(mem)
    THEN [k \in DOMAIN mem |-> IF mem[k].key = zip THEN [key |-> zip, value |-> value] ELSE mem[k]]
    ELSE Append(mem, [key |-> zip, value |-> value])

addToMemoryCacheDropped(mem, zip, data, t) == mem

addToMemoryCacheLIFO(mem, zip, data, t) ==
    LET m1 == IF Len(mem) >= memoryCacheSize THEN SubSeq(mem, 1, Len(mem) - 1) ELSE mem
    IN  MapSet(m1, zip, [data |-> data, timestamp |-> t])

\* addToMemoryCache(zip, data)
addToMemoryCache(mem, zip, data, t) ==
    LET m1 == IF Len(mem) >= memoryCacheSize THEN Tail(mem) ELSE mem
    IN  MapSet(m1, zip, [data |-> data, timestamp |-> t])

(***************************************************************************)
(* State                                                                   *)
(***************************************************************************)
VARIABLES
    now,                \* Date.now()
    ticks,              \* number of clock advances so far
    db,                 \* this.db is non-null
    cachePromise,       \* "null", "opening", "sweeping" or "resolved"
    sweepNow,           \* `now` captured by cleanExpiredCache
    store,              \* durable object store: zip -> [data, expiry]
    memoryCache,        \* this.memoryCache
    currentProxyIndex,  \* this.currentProxyIndex (0-based)
    inv,                \* the fetchCombinedData invocations in progress
    calls,              \* number of fetchCombinedData calls so far
    clr,                \* clearCache: "idle" or "pending" (store.clear() issued)
    clears,             \* number of clearCache calls so far
    failures,           \* number of request attempts that failed
    badTables,          \* number of responses that were not the complete table
    upstream,           \* condition of the upstream, see `answers`
    put,                \* zip -> payload last stored by the fetch path
    cleared,            \* clearCache returned in the last step
    insOrd,             \* memory tier: key -> ordinal of its insertion
    memCalls,           \* direct addToMemoryCache calls: [new, again, ord]
    evict,              \* what the last addToMemoryCache call evicted
    spatialUtils,       \* SpatialUtils: [hotspotCache, lastHotspotCalculation]
    hotspotCall,        \* the last findHotspots call: [called, markers, result, cached]
    visualizer,         \* ACSMapVisualizer: markers, hotspots, pending timers
    ringApp,            \* ACSMapVisualizer with rings: markers, rings, localStorage
    navigator           \* ACSMapVisualizer as the W/A/S/D keys see it

vars == <<now, ticks, db, cachePromise, sweepNow, store, memoryCache,
          currentProxyIndex, inv, calls, clr, clears, failures,
          badTables, upstream, put, cleared, insOrd, memCalls, evict,
          spatialUtils, hotspotCall, visualizer, ringApp, navigator>>

memGhost == <<insOrd, memCalls, evict>>

env == <<failures, badTables, upstream>>

ui == <<spatialUtils, hotspotCall, visualizer, ringApp, navigator>>

others == <<env, put, memGhost, ui>>

NoRet == [kind |-> "none", val |-> EmptyMap]
NoEntry == [zip |-> 0, data |-> 0, expiry |-> 0]

\* local state of one fetchCombinedData invocation (fields after `returned`
\* are history kept for the properties)
IdleInv ==
    [pc |-> "idle", zipCodes |-> <<>>, chunks |-> <<>>, ci |-> 0,
     pending |-> <<>>, hung |-> FALSE, results |-> EmptyMap,
     missingZips |-> <<>>, batches |-> <<>>, bi |-> 0, fmResults |-> EmptyMap,
     stack |-> <<>>, cur |-> <<>>, retryCount |-> 0, ret |-> NoRet,
     puts |-> <<>>, toStore |-> <<>>, entry |-> NoEntry, returned |-> EmptyMap,
     lookups |-> EmptyMap, hits |-> {}, serves |-> {}, expiredSeen |-> {},
     parsed |-> {}, attempts |-> 0, reqSizes |-> <<>>, sent |-> EmptyMap,
     tried |-> <<>>, gaveUp |-> {}, overlaps |-> {}]

\* new SpatialUtils(): hotspotCache = null, lastHotspotCalculation = 0
NewSpatialUtils ==
    [hotspotCache |-> [null |-> TRUE, value |-> <<>>], lastHotspotCalculation |-> 0]

NoHotspotCall == [called |-> FALSE, markers |-> <<>>, result |-> <<>>, cached |-> FALSE]

\* new ACSMapVisualizer(): no marker, no hotspot, nothing scheduled;
\* window.acsApp is the ACSApplication with the hotspot list
NewVisualizer ==
    [markers |-> <<>>, hotspots |-> <<>>, isCalculatingHotspots |-> FALSE,
     timers |-> <<>>, loads |-> 0, clicks |-> 0, acsApp |-> "hotspotList"]

\* the same visualizer on the page whose ACSApplication lists the circles
\* and has no updateHotspotList
NewCirclesVisualizer == [NewVisualizer EXCEPT !.acsApp = "circlesList"]

NoStats ==
    [totalMarkers |-> 0, educationOnly |-> 0, incomeOnly |-> 0, bothCriteria |-> 0,
     totalEducation |-> 0]

\* this.startPoint and this.tempCircle before a drawing starts
NoPoint == [null |-> TRUE, at |-> 0]

NoCircle == [null |-> TRUE, radius |-> 0]

NoEvent == [name |-> "none", arg |-> <<>>, changed |-> FALSE]

\* new ACSMapVisualizer() of the ring map: no marker, no ring, not drawing,
\* the 1000 ms timer that loads the saved rings is set. History: `event` is
\* the drawing or ring handler that ran last, with its argument and whether
\* it changed anything, `reloaded`
\* whether loadSavedRings has run since the last data load, `sessions` the
\* number of page loads before this one
NewRingApp ==
    [variant |-> "rings", markers |-> <<>>, rings |-> <<>>, ringCreationOrder |-> <<>>,
     ringCounter |-> 0, storage |-> <<>>, saved |-> FALSE, pending |-> 1, loads |-> 0,
     circleStats |-> NoStats, reloaded |-> FALSE,
     isDrawing |-> FALSE, drawingLock |-> FALSE, startPoint |-> NoPoint,
     tempCircle |-> NoCircle, notification |-> "none", event |-> NoEvent,
     sessions |-> 0]

\* the triple-circle map: the same drawing and persistence code, 5/10/20 miles
NewCircleApp == [NewRingApp EXCEPT !.variant = "circles"]

\* the map opens on [39.8283, -98.5795]; positions are in tenths of a degree
initialCenter == [lat |-> 398, lng |-> -986]

\* new ACSMapVisualizer() as far as marker creation and the W/A/S/D keys go:
\* every layer visible, no marker, never navigated. `clock` is Date.now(),
\* more than a cooldown after 0; `records` (the records of the last
\* load) and `key` (the last W/A/S/D key, whether it was past the cooldown
\* and whether it flew) are history
NewNavigator ==
    [variant |-> "distance", markers |-> <<>>, markerList |-> <<>>,
     layerVisibility |-> [t \in {"education", "income", "both"} |-> TRUE],
     currentMarkerIndex |-> -1, lastNavigationTime |-> 0, center |-> initialCenter,
     clock |-> 300, loads |-> 0, keys |-> 0, records |-> <<>>,
     key |-> [key |-> "none", cooled |-> FALSE, flew |-> FALSE]]

\* js/mapVisualizer.js: the navigator that scores direction and distance
NewScoreNavigator == [NewNavigator EXCEPT !.variant = "score"]

NoEvict == [atCapacityNew |-> FALSE, evicted |-> {}, oldest |-> {}, size |-> 0]

\* entries a previous session may have left in the durable store
InitStores ==
    { EmptyMap,
      [z \in {1} |-> [data |-> Payload(1, 1), expiry |-> 1 + cacheDuration]] }

InitService ==
    /\ now = cacheDuration
    /\ ticks = 0
    /\ db = FALSE
    /\ cachePromise = "null"
    /\ sweepNow = 0
    /\ memoryCache = <<>>
    /\ currentProxyIndex = 0
    /\ inv = [i \in Invs |-> IdleInv]
    /\ calls = 0
    /\ clr = "idle"
    /\ clears = 0
    /\ failures = 0
    /\ badTables = 0
    /\ put = EmptyMap
    /\ cleared = FALSE
    /\ insOrd = EmptyMap
    /\ memCalls = [new |-> 0, again |-> 0, ord |-> 0]
    /\ evict = NoEvict
    /\ spatialUtils = NewSpatialUtils
    /\ hotspotCall = NoHotspotCall

InitCommon ==
    /\ InitService
    /\ visualizer = NewVisualizer
    /\ ringApp = NewRingApp
    /\ navigator = NewNavigator

Init ==
    /\ InitCommon
    /\ store \in InitStores
    /\ upstream = "flaky"

(***************************************************************************)
(* Clock                                                                   *)
(***************************************************************************)
Tick(d) ==
    /\ ticks < MaxTicks
    /\ now' = now + d
    /\ ticks' = ticks + 1
    /\ cleared' = FALSE
    /\ UNCHANGED <<db, cachePromise, sweepNow, store, memoryCache,
                   currentProxyIndex, inv, calls, clr, clears, others>>

(***************************************************************************)
(* ensureInitialized                                                       *)
(***************************************************************************)
\* request.onsuccess: this.db is set and cleanExpiredCache() is called
OpenSuccess ==
    /\ cachePromise = "opening"
    /\ db' = TRUE
    /\ sweepNow' = now
    /\ cachePromise' = "sweeping"
    /\ cleared' = FALSE
    /\ UNCHANGED <<now, ticks, store, memoryCache, currentProxyIndex, inv,
                   calls, clr, clears, others>>

\* request.onerror: resolve() with this.db still null
OpenError ==
    /\ cachePromise = "opening"
    /\ cachePromise' = "resolved"
    /\ cleared' = FALSE
    /\ UNCHANGED <<now, ticks, db, sweepNow, store, memoryCache,
                   currentProxyIndex, inv, calls, clr, clears, others>>

\* cleanExpiredCache(): the cursor over IDBKeyRange.upperBound(now) deletes
\* every entry with expiry <= now, then the promise resolves
cleanExpiredCache ==
    /\ cachePromise = "sweeping"
    /\ store' = [z \in {y \in DOMAIN store : store[y].expiry > sweepNow} |-> store[z]]
    /\ cachePromise' = "resolved"
    /\ cleared' = FALSE
    /\ UNCHANGED <<now, ticks, db, sweepNow, memoryCache, currentProxyIndex,
                   inv, calls, clr, clears, others>>

(***************************************************************************)
(* fetchCombinedData: entry                                                *)
(***************************************************************************)
fetchCombinedData(i, zipCodes) ==
    /\ inv[i].pc \in {"idle", "done", "raised"}
    /\ calls < MaxCalls
    /\ calls' = calls + 1
    /\ IF Len(zipCodes) = 0
       THEN /\ inv' = [inv EXCEPT ![i] = [IdleInv EXCEPT !.pc = "done"]]
            /\ UNCHANGED cachePromise
       ELSE /\ inv' = [inv EXCEPT ![i] = [IdleInv EXCEPT !.pc = "init", !.zipCodes = zipCodes,
                                   !.overlaps = {j \in Invs \ {i} :
                                                   inv[j].pc \notin {"idle", "done", "raised"}}]]
            /\ cachePromise' = IF cachePromise = "null" THEN "opening" ELSE cachePromise
    /\ cleared' = FALSE
    /\ UNCHANGED <<now, ticks, db, sweepNow, store, memoryCache,
                   currentProxyIndex, clr, clears, others>>

\* after `await this.ensureInitialized()`: de-duplicate and chunk the input
startChunks(i) ==
    /\ inv[i].pc = "init"
    /\ cachePromise = "resolved"
    /\ inv' = [inv EXCEPT ![i].pc = "chunk",
                          ![i].chunks = chunkArray(uniqueZips(inv[i].zipCodes), lookupChunkSize),
                          ![i].ci = 1]
    /\ cleared' = FALSE
    /\ UNCHANGED <<now, ticks, db, cachePromise, sweepNow, store, memoryCache,
                   currentProxyIndex, calls, clr, clears, others>>

(***************************************************************************)
(* processChunk and getFromCache                                           *)
(***************************************************************************)
CountUp(f, S) == [z \in (DOMAIN f) \cup S |->
                    (IF z \in DOMAIN f THEN f[z] ELSE 0) + (IF z \in S THEN 1 ELSE 0)]

SelectSeq2(s, S) == SelectSeq(s, LAMBDA z : z \in S)

\* the synchronous part of processChunk: the memory tier answers at once
\* (with the stored {data, timestamp} entry); every other ZIP goes to
\* getFromCache, which returns null immediately when this.db is null
processChunk(i) ==
    LET r     == inv[i]
        chunk == r.chunks[r.ci]
        memHit == {z \in Range(chunk) : z \in MemKeys(memoryCache)}
        rest  == SelectSeq2(chunk, Range(chunk) \ memHit)
        res1  == Merge(r.results, [z \in memHit |-> memoryCache[MemGet(memoryCache, z)].value])
    IN  /\ r.pc = "chunk"
        /\ inv' = [inv EXCEPT ![i] =
                    [r EXCEPT !.pc = "lookup",
                              !.results = res1,
                              !.pending = IF db THEN rest ELSE <<>>,
                              !.missingZips = IF db THEN @ ELSE @ \o rest,
                              !.lookups = CountUp(@, Range(chunk)),
                              !.hits = @ \cup memHit,
                              !.serves = @ \cup
                                  {[zip |-> z, tier |-> "memory", at |-> now,
                                    expiry |-> memoryCache[MemGet(memoryCache, z)].value.timestamp + cacheDuration]
                                   : z \in memHit}]]
        /\ cleared' = FALSE
        /\ UNCHANGED <<now, ticks, db, cachePromise, sweepNow, store, memoryCache,
                       currentProxyIndex, calls, clr, clears, others>>

\* if (Date.now() > cached.expiry)
isExpired(t, expiry) == t > expiry

\* getFromCache(zip): request.onsuccess of store.get on a readonly
\* transaction, followed by the continuation in processChunk.  On an expired
\* entry the handler calls store.delete on the readonly transaction, which
\* raises ReadOnlyError inside the handler: nothing is deleted and the
\* promise is never resolved
getFromCache(i) ==
    LET r == inv[i]
        z == Head(r.pending)
    IN  /\ r.pc = "lookup"
        /\ r.pending # <<>>
        /\ IF z \notin DOMAIN store
           THEN /\ inv' = [inv EXCEPT ![i].pending = Tail(@),
                                      ![i].missingZips = Append(@, z)]
                /\ UNCHANGED memoryCache
           ELSE IF isExpired(now, store[z].expiry)
           THEN /\ inv' = [inv EXCEPT ![i].pending = Tail(@),
                                      ![i].hung = TRUE,
                                      ![i].expiredSeen = @ \cup {[zip |-> z, expiry |-> store[z].expiry]}]
                /\ UNCHANGED memoryCache
           ELSE /\ inv' = [inv EXCEPT ![i].pending = Tail(@),
                                      ![i].results = Merge(@, [y \in {z} |-> store[z].data]),
                                      ![i].hits = @ \cup {z},
                                      ![i].serves = @ \cup
                                          {[zip |-> z, tier |-> "durable", at |-> now,
                                            expiry |-> store[z].expiry]}]
                /\ memoryCache' = addToMemoryCache(memoryCache, z, store[z].data, now)
        /\ cleared' = FALSE
        /\ UNCHANGED <<now, ticks, db, cachePromise, sweepNow, store,
                       currentProxyIndex, calls, clr, clears, others>>

(***************************************************************************)
(* fetchMissingData, fetchBatchFromAPI, fetchWithCorsFallback              *)
(***************************************************************************)
\* the first attempt of fetchWithCorsFallback for one fetchBatchFromAPI call:
\* the request goes to proxyUrls[currentProxyIndex]
Send(r, zips, idx) ==
    [r EXCEPT !.pc = "fetch", !.cur = zips, !.retryCount = 0, !.ret = NoRet,
              !.tried = <<idx>>,
              !.attempts = @ + 1,
              !.reqSizes = Append(@, Len(zips)),
              !.sent = CountUp(@, Range(zips))]

\* Promise.all of processChunk resolved and another chunk is left
nextChunk(i) ==
    /\ inv[i].pc = "lookup"
    /\ inv[i].pending = <<>>
    /\ ~inv[i].hung
    /\ inv[i].ci < Len(inv[i].chunks)
    /\ inv' = [inv EXCEPT ![i].pc = "chunk", ![i].ci = @ + 1]
    /\ cleared' = FALSE
    /\ UNCHANGED <<now, ticks, db, cachePromise, sweepNow, store, memoryCache,
                   currentProxyIndex, calls, clr, clears, others>>

\* all chunks looked up, nothing missing: build resultObj and return
returnHits(i) ==
    /\ inv[i].pc = "lookup"
    /\ inv[i].pending = <<>>
    /\ ~inv[i].hung
    /\ inv[i].ci = Len(inv[i].chunks)
    /\ inv[i].missingZips = <<>>
    /\ inv' = [inv EXCEPT ![i].pc = "done", ![i].returned = inv[i].results]
    /\ cleared' = FALSE
    /\ UNCHANGED <<now, ticks, db, cachePromise, sweepNow, store, memoryCache,
                   currentProxyIndex, calls, clr, clears, others>>

\* all chunks looked up, some ZIPs missing: fetchMissingData(missingZips)
\* cuts them into batches and requests the first one
fetchMissingData(i) ==
    LET r == inv[i]
        batches == chunkArray(r.missingZips, batchSize)
    IN  /\ r.pc = "lookup"
        /\ r.pending = <<>>
        /\ ~r.hung
        /\ r.ci = Len(r.chunks)
        /\ r.missingZips # <<>>
        /\ inv' = [inv EXCEPT ![i] =
                      Send([r EXCEPT !.batches = batches, !.bi = 1], batches[1], currentProxyIndex)]
        /\ cleared' = FALSE
        /\ UNCHANGED <<now, ticks, db, cachePromise, sweepNow, store, memoryCache,
                       currentProxyIndex, calls, clr, clears, others>>

nextProxyIndexStuck(idx) == idx

\* this.currentProxyIndex = (this.currentProxyIndex + 1) % this.proxyUrls.length
nextProxyIndex(idx) == (idx + 1) % Len(proxyUrls)

\* if (retryCount < this.proxyUrls.length - 1)
canRetry(retryCount) == retryCount < Len(proxyUrls) - 1

shouldSplitAlways(zipCodes) == Len(zipCodes) > 0

\* if (zipCodes.length > 5)
shouldSplit(zipCodes) == Len(zipCodes) > smallBatchSize

\* the catch block of fetchBatchFromAPI: an oversized batch is cut into
\* smaller batches and the first of them is requested, any other batch
\* rethrows to the caller
catchBatch(r, idx) ==
    IF shouldSplit(r.cur)
    THEN LET sub == chunkArray(r.cur, smallBatchSize)
         IN  Send([r EXCEPT !.stack = <<[sub |-> sub, k |-> 1, acc |-> EmptyMap]>> \o @],
                  sub[1], idx)
    ELSE [r EXCEPT !.pc = "unwind", !.ret = [kind |-> "throw", val |-> EmptyMap]]

\* what the upstream answers to a request for `zips`
Responses(zips) ==
    { [kind |-> "table", rows |-> Range(zips)],
      [kind |-> "table", rows |-> Range(zips) \ {zips[1]}],
      [kind |-> "empty", rows |-> {}],
      [kind |-> "malformed", rows |-> {}] }

Failure == [kind |-> "fail", rows |-> {}]

\* what an upstream in the given condition can do with a request for `zips`:
\*   "flaky"       any failure, any response
\*   "lossy"       the attempt fails, or the complete table comes back
\*   "truncating"  the attempt fails, or the complete table comes back for at
\*                 most 5 ZIPs and a malformed one for more
\*   "garbled"     every response is a malformed table
\*   "down"        every attempt fails
answers(condition, outcome, zips) ==
    LET complete == outcome.kind = "table" /\ outcome.rows = Range(zips)
    IN  CASE condition = "lossy" -> outcome.kind = "fail" \/ complete
          [] condition = "truncating" ->
                \/ outcome.kind = "fail"
                \/ IF Len(zips) > smallBatchSize THEN outcome.kind = "malformed" ELSE complete
          [] condition = "garbled" -> outcome.kind = "malformed"
          [] condition = "down" -> outcome.kind = "fail"
          [] OTHER -> TRUE

\* the ways the in-flight attempt of invocation i can settle
Outcomes(i) ==
    IF inv[i].pc = "fetch" THEN Responses(inv[i].cur) \cup {Failure} ELSE {}

\* fetchWithCorsFallback: the in-flight attempt settles.  A failure (network
\* error, non-2xx, timeout, invalid JSON) is retried on the next proxy while
\* retryCount allows it and is rethrown otherwise; a response is handed to
\* parseResponse by fetchBatchFromAPI
fetchWithCorsFallback(i, outcome) ==
    LET r == inv[i]
        good == outcome.kind = "table" /\ outcome.rows = Range(r.cur)
        fail == outcome.kind = "fail"
    IN  /\ r.pc = "fetch"
        /\ answers(upstream, outcome, r.cur)
        /\ fail /\ upstream # "down" => failures < MaxFailures
        /\ ~(fail \/ good) /\ upstream = "flaky" => badTables < MaxBadTables
        /\ failures' = IF fail /\ upstream # "down" THEN failures + 1 ELSE failures
        /\ badTables' = IF ~(fail \/ good) /\ upstream = "flaky" THEN badTables + 1 ELSE badTables
        /\ IF outcome.kind = "fail"
           THEN IF canRetry(r.retryCount)
                THEN /\ currentProxyIndex' = nextProxyIndex(currentProxyIndex)
                     /\ inv' = [inv EXCEPT ![i].retryCount = @ + 1,
                                           ![i].tried = Append(@, currentProxyIndex'),
                                           ![i].attempts = @ + 1,
                                           ![i].reqSizes = Append(@, Len(r.cur)),
                                           ![i].sent = CountUp(@, Range(r.cur))]
                ELSE /\ inv' = [inv EXCEPT ![i] =
                                   catchBatch([r EXCEPT !.gaveUp = @ \cup
                                                   {[tried |-> r.tried, size |-> Len(r.cur),
                                                     depth |-> Len(r.stack)]}],
                                              currentProxyIndex)]
                     /\ UNCHANGED currentProxyIndex
           ELSE IF parseThrows(outcome)
           THEN /\ inv' = [inv EXCEPT ![i] = catchBatch(r, currentProxyIndex)]
                /\ UNCHANGED currentProxyIndex
           ELSE /\ inv' = [inv EXCEPT ![i].pc = "unwind",
                                      ![i].ret = [kind |-> "return",
                                                  val |-> parseResponse(outcome, r.cur, now)],
                                      ![i].parsed = @ \cup DOMAIN parseResponse(outcome, r.cur, now)]
                /\ UNCHANGED currentProxyIndex
        /\ cleared' = FALSE
        /\ UNCHANGED <<now, ticks, db, cachePromise, sweepNow, store, memoryCache,
                       calls, clr, clears, upstream, put, memGhost, ui>>

\* a fetchBatchFromAPI call for a smaller batch returns or throws to the
\* loop over smallerBatches of its caller: the result is merged, a throw is
\* caught, and the next smaller batch is requested or the caller returns
smallBatchLoop(i) ==
    LET r    == inv[i]
        p    == Head(r.stack)
        acc1 == IF r.ret.kind = "return" THEN Merge(p.acc, r.ret.val) ELSE p.acc
    IN  /\ r.pc = "unwind"
        /\ r.stack # <<>>
        /\ inv' = [inv EXCEPT ![i] =
                     IF p.k < Len(p.sub)
                     THEN Send([r EXCEPT !.stack = <<[p EXCEPT !.k = @ + 1, !.acc = acc1]>> \o Tail(@)],
                               p.sub[p.k + 1], currentProxyIndex)
                     ELSE [r EXCEPT !.stack = Tail(@),
                                    !.ret = [kind |-> "return", val |-> acc1]]]
        /\ cleared' = FALSE
        /\ UNCHANGED <<now, ticks, db, cachePromise, sweepNow, store, memoryCache,
                       currentProxyIndex, calls, clr, clears, others>>

uncaughtInFetchMissingData(where) == where = "smallBatch"

\* try/catch around `await this.fetchBatchFromAPI(...)`, in fetchMissingData
\* and in the loop over smallerBatches
caught(where) == where \in {"fetchMissingData", "smallBatch"}

\* the entry cacheData(zip, data) writes
cacheData(zip, data, t) == [zip |-> zip, data |-> data, expiry |-> t + cacheDuration]

\* the outermost fetchBatchFromAPI call returns or throws to fetchMissingData:
\* a result is merged and cacheData is called for each of its entries (a
\* no-op when this.db is null), a throw is caught and logged
batchSettled(i) ==
    LET r == inv[i]
        val == r.ret.val
    IN  /\ r.pc = "unwind"
        /\ r.stack = <<>>
        /\ inv' = [inv EXCEPT ![i] =
                     IF r.ret.kind = "return"
                     THEN [r EXCEPT !.pc = "caching", !.ret = NoRet,
                                    !.fmResults = Merge(@, val),
                                    !.puts = IF db
                                             THEN [k \in 1..Cardinality(DOMAIN val) |->
                                                     cacheData(SortSet(DOMAIN val)[k],
                                                               val[SortSet(DOMAIN val)[k]], now)]
                                             ELSE <<>>]
                     ELSE IF caught("fetchMissingData")
                     THEN [r EXCEPT !.pc = "caching", !.ret = NoRet, !.puts = <<>>]
                     ELSE [r EXCEPT !.pc = "raised", !.ret = NoRet]]
        /\ cleared' = FALSE
        /\ UNCHANGED <<now, ticks, db, cachePromise, sweepNow, store, memoryCache,
                       currentProxyIndex, calls, clr, clears, others>>

StorePut(st, e) == Merge(st, [z \in {e.zip} |-> [data |-> e.data, expiry |-> e.expiry]])

\* one readwrite transaction of the batch's cacheData calls completes
cachePut(i) ==
    /\ inv[i].pc = "caching"
    /\ inv[i].puts # <<>>
    /\ store' = StorePut(store, Head(inv[i].puts))
    /\ inv' = [inv EXCEPT ![i].puts = Tail(@)]
    /\ cleared' = FALSE
    /\ UNCHANGED <<now, ticks, db, cachePromise, sweepNow, memoryCache,
                   currentProxyIndex, calls, clr, clears, others>>

\* the batch is done: request the next batch, or return from
\* fetchMissingData into the loop over Object.entries(missingData)
nextBatch(i) ==
    LET r == inv[i]
    IN  /\ r.pc = "caching"
        /\ r.puts = <<>>
        /\ inv' = [inv EXCEPT ![i] =
                     IF r.bi < Len(r.batches)
                     THEN Send([r EXCEPT !.bi = @ + 1], r.batches[r.bi + 1], currentProxyIndex)
                     ELSE [r EXCEPT !.pc = "store", !.toStore = SortSet(DOMAIN r.fmResults)]]
        /\ cleared' = FALSE
        /\ UNCHANGED <<now, ticks, db, cachePromise, sweepNow, store, memoryCache,
                       currentProxyIndex, calls, clr, clears, others>>

\* results.set(zip, data); await this.cacheData(zip, data).  With this.db
\* null cacheData returns at once and this.addToMemoryCache(zip, data) follows
\* without a suspension
storeStart(i) ==
    LET r == inv[i]
        z == Head(r.toStore)
    IN  /\ r.pc = "store"
        /\ r.toStore # <<>>
        /\ IF db
           THEN /\ inv' = [inv EXCEPT ![i].pc = "storing",
                                      ![i].results = Merge(@, [y \in {z} |-> r.fmResults[z]]),
                                      ![i].entry = cacheData(z, r.fmResults[z], now)]
                /\ UNCHANGED memoryCache
           ELSE /\ inv' = [inv EXCEPT ![i].results = Merge(@, [y \in {z} |-> r.fmResults[z]]),
                                      ![i].toStore = Tail(@)]
                /\ memoryCache' = addToMemoryCache(memoryCache, z, r.fmResults[z], now)
        /\ cleared' = FALSE
        /\ UNCHANGED <<now, ticks, db, cachePromise, sweepNow, store,
                       currentProxyIndex, calls, clr, clears, others>>

\* the transaction of cacheData completed; this.addToMemoryCache(zip, data)
storeDone(i) ==
    LET r == inv[i]
        z == Head(r.toStore)
    IN  /\ r.pc = "storing"
        /\ store' = StorePut(store, r.entry)
        /\ memoryCache' = addToMemoryCache(memoryCache, z, r.fmResults[z], now)
        /\ inv' = [inv EXCEPT ![i].pc = "store", ![i].toStore = Tail(@), ![i].entry = NoEntry]
        /\ put' = Merge(put, [y \in {z} |-> r.fmResults[z]])
        /\ cleared' = FALSE
        /\ UNCHANGED <<now, ticks, db, cachePromise, sweepNow,
                       currentProxyIndex, calls, clr, clears, env, memGhost, ui>>

\* every fetched entry is stored: build resultObj and return
returnResults(i) ==
    /\ inv[i].pc = "store"
    /\ inv[i].toStore = <<>>
    /\ inv' = [inv EXCEPT ![i].pc = "done", ![i].returned = inv[i].results]
    /\ cleared' = FALSE
    /\ UNCHANGED <<now, ticks, db, cachePromise, sweepNow, store, memoryCache,
                   currentProxyIndex, calls, clr, clears, others>>

(***************************************************************************)
(* clearCache                                                              *)
(***************************************************************************)
\* if (!this.db) return 0
clearCacheNoDb ==
    /\ clr = "idle"
    /\ clears < MaxClears
    /\ ~db
    /\ clears' = clears + 1
    /\ cleared' = TRUE
    /\ UNCHANGED <<now, ticks, db, cachePromise, sweepNow, store, memoryCache,
                   currentProxyIndex, inv, calls, clr, others>>

\* store.clear() is issued on a readwrite transaction
clearCacheCall ==
    /\ clr = "idle"
    /\ clears < MaxClears
    /\ db
    /\ clears' = clears + 1
    /\ clr' = "pending"
    /\ cleared' = FALSE
    /\ UNCHANGED <<now, ticks, db, cachePromise, sweepNow, store, memoryCache,
                   currentProxyIndex, inv, calls, others>>

\* request.onsuccess: this.memoryCache.clear(); resolve(1)
clearCacheSuccess ==
    /\ clr = "pending"
    /\ store' = EmptyMap
    /\ memoryCache' = <<>>
    /\ clr' = "idle"
    /\ cleared' = TRUE
    /\ UNCHANGED <<now, ticks, db, cachePromise, sweepNow,
                   currentProxyIndex, inv, calls, clears, others>>

(***************************************************************************)
(* Specification of the service: one fetchCombinedData at a time, the      *)
(* clock advancing and clearCache called in between                        *)
(***************************************************************************)
Inputs == { <<>>, <<1>>, <<1, 2, 1>> }

\* (the inputs of this specification fit one lookup chunk and one batch of
\* at most 5 ZIPs: nextChunk and smallBatchLoop are never enabled)
Step(i) ==
    \/ startChunks(i)
    \/ processChunk(i)
    \/ getFromCache(i)
    \/ returnHits(i)
    \/ fetchMissingData(i)
    \/ \E o \in Outcomes(i) : fetchWithCorsFallback(i, o)
    \/ batchSettled(i)
    \/ cachePut(i)
    \/ nextBatch(i)
    \/ storeStart(i)
    \/ storeDone(i)
    \/ returnResults(i)

Next ==
    \/ \E zs \in Inputs : fetchCombinedData(1, zs)
    \/ Step(1)
    \/ OpenSuccess
    \/ OpenError
    \/ cleanExpiredCache
    \/ \E d \in {1, cacheDuration} : Tick(d)
    \/ clearCacheNoDb
    \/ clearCacheCall
    \/ clearCacheSuccess

Spec == Init /\ [][Next]_vars

(***************************************************************************)
(* Specification with overlapping fetchCombinedData invocations (a second  *)
(* loadData/reloadData issued while the first is in flight)                *)
(***************************************************************************)
OverlapInputs == { <<1>>, <<1, 2, 1>> }

overlappingCall(i, zs) ==
    /\ inv[i].pc = "idle"
    /\ fetchCombinedData(i, zs)

NextOverlap ==
    \/ \E i \in Invs, zs \in OverlapInputs : overlappingCall(i, zs)
    \/ \E i \in Invs : Step(i)
    \/ OpenSuccess
    \/ OpenError
    \/ cleanExpiredCache

SpecOverlap == Init /\ [][NextOverlap]_vars

(***************************************************************************)
(* Specification of one fetchCombinedData over ZIP lists of several        *)
(* batches, with an unreliable upstream                                    *)
(***************************************************************************)
Upto(n) == [k \in 1..n |-> k]

BatchInputs == { <<1>>, Upto(smallBatchSize + 2), Upto(batchSize + 2) \o <<1>> }

batchCall(zs) ==
    /\ inv[1].pc = "idle"
    /\ fetchCombinedData(1, zs)

\* the attempt fails, or the complete table or a malformed one comes back
BatchOutcomes ==
    IF inv[1].pc = "fetch"
    THEN { [kind |-> "table", rows |-> Range(inv[1].cur)],
           [kind |-> "malformed", rows |-> {}],
           Failure }
    ELSE {}

NextBatch ==
    \/ \E zs \in BatchInputs : batchCall(zs)
    \/ startChunks(1)
    \/ processChunk(1)
    \/ getFromCache(1)
    \/ returnHits(1)
    \/ fetchMissingData(1)
    \/ \E o \in BatchOutcomes : fetchWithCorsFallback(1, o)
    \/ smallBatchLoop(1)
    \/ batchSettled(1)
    \/ cachePut(1)
    \/ nextBatch(1)
    \/ storeStart(1)
    \/ storeDone(1)
    \/ returnResults(1)
    \/ OpenSuccess
    \/ OpenError
    \/ cleanExpiredCache

\* an earlier session left ZIP 1 in the durable store
InitBatch ==
    /\ InitCommon
    /\ store = [z \in {1} |-> [data |-> Payload(1, 1), expiry |-> 1 + cacheDuration]]
    /\ upstream \in {"lossy", "truncating", "garbled", "down"}

SpecBatch == InitBatch /\ [][NextBatch]_vars

(***************************************************************************)
(* Specification of one fetchCombinedData over long ZIP lists when every   *)
(* request succeeds with a complete table                                  *)
(***************************************************************************)
MaxZips == 65

ReliableInputs ==
    { Upto(MaxZips) \o <<1, MaxZips>>, Upto(batchSize), Upto(batchSize + 1), <<2, 2, 1>>,
      Upto(lookupChunkSize + 1) }

reliableCall(zs) ==
    /\ inv[1].pc = "idle"
    /\ fetchCombinedData(1, zs)

reliableResponse ==
    /\ inv[1].pc = "fetch"
    /\ fetchWithCorsFallback(1, [kind |-> "table", rows |-> Range(inv[1].cur)])

NextReliable ==
    \/ \E zs \in ReliableInputs : reliableCall(zs)
    \/ startChunks(1)
    \/ processChunk(1)
    \/ getFromCache(1)
    \/ nextChunk(1)
    \/ fetchMissingData(1)
    \/ reliableResponse
    \/ batchSettled(1)
    \/ cachePut(1)
    \/ nextBatch(1)
    \/ storeStart(1)
    \/ storeDone(1)
    \/ returnResults(1)
    \/ OpenSuccess
    \/ OpenError
    \/ cleanExpiredCache

InitReliable ==
    /\ InitCommon
    /\ store = EmptyMap
    /\ upstream = "flaky"

SpecReliable == InitReliable /\ [][NextReliable]_vars

(***************************************************************************)
(* Specification of the memory tier alone: any sequence of                 *)
(* addToMemoryCache calls, with new keys and with keys already present     *)
(***************************************************************************)
\* a key never used before, the first key and the last key of the Map
MemChoices ==
    {memCalls.new + 1} \cup
    (IF memoryCache = <<>> \/ memCalls.again >= MaxReAdds THEN {}
     ELSE {memoryCache[1].key, memoryCache[Len(memoryCache)].key})

memInsert(zip) ==
    LET before == MemKeys(memoryCache)
        fresh  == zip \notin before
    IN  /\ fresh => memCalls.new < memoryCacheSize + MemExtra
        /\ memoryCache' = addToMemoryCache(memoryCache, zip, Payload(zip, now), now)
        /\ LET after == MemKeys(memoryCache')
               \* Map.set never moves a key that is present: a key that
               \* moved to the end was deleted and inserted again
               moved == /\ ~fresh
                        /\ memoryCache'[Len(memoryCache')].key = zip
                        /\ memoryCache[Len(memoryCache)].key # zip
               ord   == memCalls.ord + 1
               atCap == fresh /\ Len(memoryCache) >= memoryCacheSize
           IN  /\ memCalls' = [new   |-> memCalls.new + (IF fresh THEN 1 ELSE 0),
                                again |-> memCalls.again + (IF fresh THEN 0 ELSE 1),
                                ord   |-> IF fresh \/ moved THEN ord ELSE memCalls.ord]
               /\ insOrd' = [k \in after |-> IF k = zip /\ (fresh \/ moved) THEN ord ELSE insOrd[k]]
               /\ evict' = [atCapacityNew |-> atCap,
                            evicted |-> before \ after,
                            oldest |-> IF atCap
                                       THEN {k \in before : \A j \in before : insOrd[k] <= insOrd[j]}
                                       ELSE {},
                            size |-> Len(memoryCache)]
        /\ cleared' = FALSE
        /\ UNCHANGED <<now, ticks, db, cachePromise, sweepNow, store,
                       currentProxyIndex, inv, calls, clr, clears, env, put, ui>>

NextMem == \E zip \in MemChoices : memInsert(zip)

InitMem ==
    /\ InitCommon
    /\ store = EmptyMap
    /\ upstream = "flaky"

SpecMem == InitMem /\ [][NextMem]_vars

(***************************************************************************)
(* Specification of the service when indexedDB.open fails: memory-only     *)
(* mode.  Every attempt settles (fetch is aborted after 30 s) and every    *)
(* continuation of an invocation is eventually run by the event loop       *)
(***************************************************************************)
memoryOnlyStep ==
    \/ startChunks(1)
    \/ processChunk(1)
    \/ returnHits(1)
    \/ fetchMissingData(1)
    \/ \E o \in Outcomes(1) : fetchWithCorsFallback(1, o)
    \/ batchSettled(1)
    \/ nextBatch(1)
    \/ storeStart(1)
    \/ returnResults(1)
    \/ OpenError

NextMemoryOnly ==
    \/ \E zs \in Inputs : fetchCombinedData(1, zs)
    \/ memoryOnlyStep
    \/ \E d \in {cacheDuration} : Tick(d)
    \/ clearCacheNoDb

SpecMemoryOnly == Init /\ [][NextMemoryOnly]_vars /\ WF_vars(memoryOnlyStep)

(***************************************************************************)
(* Properties                                                              *)
(***************************************************************************)
CeilDiv(n, d) == (n + d - 1) \div d

Distinct(zipCodes) == Cardinality(Range(zipCodes))

\* C1: cache round-trip.  Once a payload d has been stored for a ZIP by the
\* fetch path (cacheData plus addToMemoryCache), a fetchCombinedData served
\* from the cache for that ZIP returns exactly d
C1_CacheRoundTrip ==
    \A i \in Invs :
        inv[i].pc = "done" =>
            \A z \in inv[i].hits \cap DOMAIN put :
                /\ DOMAIN inv[i].returned[z] = {"data", "metadata"}
                /\ inv[i].returned[z] = put[z]

C3_EndpointFallback ==
    \A i \in Invs :
        /\ \A k \in 2..Len(inv[i].tried) :
              inv[i].tried[k] = (inv[i].tried[k - 1] + 1) % Len(proxyUrls)
        /\ \A g \in inv[i].gaveUp :
              /\ Len(g.tried) = Len(proxyUrls)
              /\ Range(g.tried) = 0..(Len(proxyUrls) - 1)
        /\ inv[i].pc = "done" => Range(inv[i].missingZips) \subseteq DOMAIN inv[i].sent

C3_Witness ==
    /\ inv[1].pc = "done"
    /\ Len(inv[1].batches) >= 2
    /\ \E g \in inv[1].gaveUp : g.depth = 0 /\ g.size = batchSize
    /\ \E g \in inv[1].gaveUp : g.tried[1] # 0
    /\ inv[1].parsed \cap Range(inv[1].batches[2]) # {}

\* the largest number of request attempts a batch can cost
AttemptBound(zips) ==
    Len(proxyUrls) *
        (1 + (IF Len(zips) > smallBatchSize THEN CeilDiv(Len(zips), smallBatchSize) ELSE 0))

RECURSIVE SumAttemptBound(_)
SumAttemptBound(batches) ==
    IF batches = <<>> THEN 0
    ELSE AttemptBound(Head(batches)) + SumAttemptBound(Tail(batches))

\* C4: oversized-batch recovery terminates.  A batch of more than 5 ZIPs that
\* fails is never rethrown but retried as sub-batches of at most 5 ZIPs, a
\* failing sub-batch is not split again, so the number of attempts is bounded
\* whatever fails, and the results of the sub-batches that succeeded are
\* returned
C4_OversizedBatchRecovery ==
    /\ [](\A i \in Invs :
            /\ Len(inv[i].stack) <= 1
            /\ \A k \in 1..Len(inv[i].stack) :
                  \A m \in 1..Len(inv[i].stack[k].sub) :
                      Len(inv[i].stack[k].sub[m]) <= smallBatchSize
            /\ inv[i].attempts <= SumAttemptBound(inv[i].batches)
            /\ inv[i].pc = "done" => inv[i].parsed \subseteq DOMAIN inv[i].returned)
    /\ [][\A i \in Invs :
            (inv[i].pc = "fetch" /\ inv'[i].pc = "unwind" /\ inv'[i].ret.kind = "throw")
                => Len(inv[i].cur) <= smallBatchSize]_vars

C4_Witness ==
    /\ inv[1].pc = "done"
    /\ upstream = "down"
    /\ \E g \in inv[1].gaveUp : g.depth = 0 /\ g.size > smallBatchSize
    /\ \E g \in inv[1].gaveUp : g.depth = 1
    /\ inv[1].attempts = SumAttemptBound(inv[1].batches)

\* C5: batching and de-duplication.  With n distinct ZIPs, none cached and
\* every request succeeding, exactly ceil(n/30) requests are issued, each with
\* at most 30 ZIPs (65 distinct ZIPs give 30, 30, 5), and every distinct ZIP
\* is looked up once and sent in exactly one request, however often it is
\* repeated in the input
C5_BatchingAndDedup ==
    \A i \in Invs :
        (inv[i].pc = "done" /\ inv[i].hits = {}) =>
            LET n == Distinct(inv[i].zipCodes)
            IN  /\ inv[i].attempts = CeilDiv(n, batchSize)
                /\ Len(inv[i].reqSizes) = CeilDiv(n, batchSize)
                /\ \A k \in 1..Len(inv[i].reqSizes) : inv[i].reqSizes[k] <= batchSize
                /\ n = 65 => inv[i].reqSizes = <<30, 30, 5>>
                /\ inv[i].lookups = [z \in Range(inv[i].zipCodes) |-> 1]
                /\ inv[i].sent = [z \in Range(inv[i].zipCodes) |-> 1]

C5_Witness ==
    /\ inv[1].pc = "done"
    /\ inv[1].hits = {}
    /\ Len(inv[1].zipCodes) > Distinct(inv[1].zipCodes)
    /\ Len(inv[1].reqSizes) >= 3

\* C6: in-flight reuse.  A fetchCombinedData invoked while an earlier
\* invocation fetching the same uncached ZIP has not finished reuses the
\* in-flight result: the ZIP is requested upstream only once
C6_InFlightReuse ==
    \A j \in Invs : \A i \in inv[j].overlaps :
        (DOMAIN inv[i].sent) \cap (DOMAIN inv[j].sent) = {}

\* C7: lazy expiry.  getFromCache on a durable entry whose expiry is in the
\* past completes, reports a miss and removes the entry from the durable
\* store
C7_LazyExpiry ==
    \A i \in Invs : \A e \in inv[i].expiredSeen :
        /\ ~inv[i].hung
        /\ e.zip \in Range(inv[i].missingZips)
        /\ e.zip \in DOMAIN store => store[e.zip].expiry # e.expiry

\* C8: TTL validity in both tiers.  A lookup serves a payload only if
\* now < expiry of the entry (expiry = write time + TTL), in the memory tier
\* and in the durable tier
C8_TTLValidity ==
    \A i \in Invs : \A s \in inv[i].serves : s.at < s.expiry

\* C9: bounded FIFO memory tier.  The memory tier never holds more than 500
\* entries, and an insertion of a new key at capacity evicts exactly one
\* entry, the one inserted earliest among those present
C9_BoundedFIFO ==
    /\ Len(memoryCache) <= memoryCacheSize
    /\ evict.atCapacityNew =>
          /\ Cardinality(evict.evicted) = 1
          /\ evict.evicted \subseteq evict.oldest

C9_Witness ==
    /\ evict.atCapacityNew
    /\ Len(memoryCache) = memoryCacheSize
    /\ memCalls.again > 0
    /\ memoryCache[1].key # 1

\* C10: clearCache empties both tiers.  After clearCache completes on the
\* initialised service the memory tier holds no entry, also in memory-only
\* mode, and the durable tier holds no entry when it is available
C10_ClearEmptiesBothTiers ==
    (cleared /\ cachePromise = "resolved") =>
        /\ memoryCache = <<>>
        /\ db => DOMAIN store = {}

\* C11: memory-only degradation.  When the durable store fails to open,
\* ensureInitialized resolves, no durable-store operation is ever pending or
\* raises and the store is never touched, and every fetchCombinedData
\* completes: the ZIPs the memory tier holds are served from it, the others
\* are requested upstream, and what was parsed is in the memory tier and in
\* the returned map
C11_MemoryOnlyDegradation ==
    /\ [](~db /\ inv[1].pc # "raised" /\ ~inv[1].hung
            /\ inv[1].pending = <<>> /\ inv[1].puts = <<>> /\ inv[1].entry = NoEntry)
    /\ [][store' = store]_vars
    /\ [](inv[1].pc \in {"lookup", "fetch", "unwind", "caching"} =>
            /\ Range(inv[1].zipCodes) = inv[1].hits \cup Range(inv[1].missingZips)
            /\ Range(inv[1].missingZips) \cap MemKeys(memoryCache) = {})
    /\ [](inv[1].pc = "done" =>
            /\ Range(inv[1].missingZips) \subseteq DOMAIN inv[1].sent
            /\ inv[1].parsed \subseteq MemKeys(memoryCache)
            /\ inv[1].hits \cup inv[1].parsed \subseteq DOMAIN inv[1].returned)
    /\ (inv[1].pc = "init") ~> (inv[1].pc = "done")

C11_Witness ==
    /\ ~db
    /\ cachePromise = "resolved"
    /\ DOMAIN store # {}
    /\ inv[1].pc = "done"
    /\ inv[1].hits # {}
    /\ inv[1].parsed # {}
    /\ calls = 2

(***************************************************************************)
(* SpatialUtils: hotspot detection.                                        *)
(* Latitudes and longitudes are integers in hundredths of a degree, the    *)
(* clock counts seconds.  A centre is the exact fraction [num, den]; an    *)
(* intensity is a double, kept as [value, err]: the integer `value` plus   *)
(* `err` halves of the unit in the last place of `value`.                  *)
(***************************************************************************)
gridSize == 10

hotspotListSize == 50

\* this.cacheDuration of SpatialUtils
hotspotCacheDuration == 5 * 60

Marker(zip, lat, lng, hasEducation, hasIncome) ==
    [zip |-> zip, lat |-> lat, lng |-> lng,
     hasEducation |-> hasEducation, hasIncome |-> hasIncome]

RECURSIVE Sum(_)
Sum(s) == IF s = <<>> THEN 0 ELSE Head(s) + Sum(Tail(s))

RECURSIVE Pow2(_)
Pow2(n) == IF n = 0 THEN 1 ELSE 2 * Pow2(n - 1)

\* floor(log2(num / den)) of a positive fraction
Log2(num, den) ==
    CHOOSE e \in -12..12 :
        IF e >= 0 THEN den * Pow2(e) <= num /\ num < den * Pow2(e + 1)
        ELSE num * Pow2(-e) >= den /\ num * Pow2(-e - 1) < den

\* (m * 2^n) mod q
RECURSIVE DoubleMod(_, _, _)
DoubleMod(m, n, q) == IF n = 0 THEN m % q ELSE DoubleMod((2 * m) % q, n - 1, q)

\* round d / unit to the nearest integer, a tie to the even one
Nearest(d, unit) ==
    LET k == d \div unit
        r == d % unit
    IN  IF 2 * r > unit \/ (2 * r = unit /\ k % 2 = 1) THEN k + 1 ELSE k

\* density * (totalValue / density) in IEEE-754 doubles (53-bit significand,
\* round to nearest even) for integers: the quotient is rounded at binade e,
\* the product at binade f, and the result is totalValue plus err half-units
floatTimesQuotient(density, totalValue) ==
    IF totalValue = 0 THEN [value |-> 0, err |-> 0]
    ELSE LET e == Log2(totalValue, density)
             f == Log2(totalValue, 1)
             m == DoubleMod(totalValue % (2 * density), 52 - e, 2 * density)
             R == m % density
             up == 2 * R > density \/ (2 * R = density /\ (m \div density) % 2 = 1)
             delta == IF up THEN density - R ELSE 0 - R
             unit == Pow2(f - e)
         IN  [value |-> totalValue,
              err |-> IF delta >= 0 THEN 2 * Nearest(delta, unit)
                      ELSE IF totalValue = Pow2(f) THEN 0 - Nearest(2 * (0 - delta), unit)
                      ELSE 0 - 2 * Nearest(0 - delta, unit)]

\* cellX, cellY: Math.floor(lat / gridSize), Math.floor(lng / gridSize)
cellKey(marker) == <<marker.lat \div gridSize, marker.lng \div gridSize>>

markerValueFlat(marker) == 1

\* combined value of one marker
markerValue(marker) ==
    IF marker.hasEducation /\ marker.hasIncome THEN 3
    ELSE IF marker.hasEducation \/ marker.hasIncome THEN 1
    ELSE 0

\* keys of the grid Map, in insertion order
gridKeys(markers) ==
    LET first == {k \in DOMAIN markers :
                      \A j \in 1..(k - 1) : cellKey(markers[j]) # cellKey(markers[k])}
        order == SortSet(first)
    IN  [c \in DOMAIN order |-> cellKey(markers[order[c]])]

\* Step 1: the grid cells with their accumulated members
grid(markers) ==
    LET keys == gridKeys(markers)
    IN  [c \in DOMAIN keys |->
            LET members == SelectSeq(markers, LAMBDA marker : cellKey(marker) = keys[c])
            IN  [cellKey |-> keys[c],
                 markers |-> members,
                 totalValue |-> Sum([k \in DOMAIN members |-> markerValue(members[k])]),
                 avgLat |-> Sum([k \in DOMAIN members |-> members[k].lat]),
                 avgLng |-> Sum([k \in DOMAIN members |-> members[k].lng]),
                 count |-> Len(members)]]

\* Step 2: the object pushed for one cell (bbox left out)
cellHotspot(cell) ==
    [id |-> cell.cellKey,
     lat |-> [num |-> cell.avgLat, den |-> cell.count],
     lng |-> [num |-> cell.avgLng, den |-> cell.count],
     count |-> cell.count,
     totalValue |-> cell.totalValue,
     intensity |-> floatTimesQuotient(cell.count, cell.totalValue),
     markers |-> cell.markers]

\* reading a property: undefined when the object does not have it
prop(object, name) ==
    IF name \in DOMAIN object
    THEN [undefined |-> FALSE, num |-> object[name].num, den |-> object[name].den]
    ELSE [undefined |-> TRUE, num |-> 0, den |-> 1]

\* (a + b) / 2, NaN when an operand is undefined
halfSum(a, b) ==
    IF a.undefined \/ b.undefined THEN [undefined |-> TRUE, num |-> 0, den |-> 1]
    ELSE [undefined |-> FALSE, num |-> a.num * b.den + b.num * a.den, den |-> 2 * a.den * b.den]

\* distance < mergeDistance for hotspots[i], hotspots[j]: an undefined avgLat
\* or avgLng makes dx, dy and distance NaN, and NaN < mergeDistance is false
closerThan(hi, hj, mergeDistance) ==
    LET ilat == prop(hi, "avgLat")
        jlat == prop(hj, "avgLat")
        ilng == prop(hi, "avgLng")
        jlng == prop(hj, "avgLng")
    IN  IF ilat.undefined \/ jlat.undefined \/ ilng.undefined \/ jlng.undefined THEN FALSE
        ELSE LET dx == ilat.num * jlat.den - jlat.num * ilat.den
                 dy == ilng.num * jlng.den - jlng.num * ilng.den
                 qx == ilat.den * jlat.den
                 qy == ilng.den * jlng.den
             IN  dx * dx * qy * qy + dy * dy * qx * qx
                     < mergeDistance * mergeDistance * qx * qx * qy * qy

\* the inner loop: hotspots[j] for the j of js are added to the cluster
RECURSIVE absorb(_, _, _)
absorb(cluster, hotspots, js) ==
    IF js = <<>> THEN cluster
    ELSE LET hj == hotspots[Head(js)]
         IN  absorb([markers |-> cluster.markers \o hj.markers,
                     count |-> cluster.count + hj.count,
                     totalValue |-> cluster.totalValue + hj.totalValue,
                     intensity |-> [value |-> cluster.intensity.value + hj.intensity.value,
                                    err |-> cluster.intensity.err + hj.intensity.err],
                     avgLat |-> halfSum(cluster.avgLat, prop(hj, "avgLat")),
                     avgLng |-> halfSum(cluster.avgLng, prop(hj, "avgLng"))],
                    hotspots, Tail(js))

\* the outer loop from index i on
RECURSIVE mergeFrom(_, _, _, _)
mergeFrom(hotspots, i, used, mergeDistance) ==
    IF i > Len(hotspots) THEN <<>>
    ELSE IF i \in used THEN mergeFrom(hotspots, i + 1, used, mergeDistance)
    ELSE LET js == {j \in (i + 1)..Len(hotspots) :
                        j \notin used /\ closerThan(hotspots[i], hotspots[j], mergeDistance)}
             cluster == [markers |-> hotspots[i].markers,
                         count |-> hotspots[i].count,
                         totalValue |-> hotspots[i].totalValue,
                         intensity |-> hotspots[i].intensity,
                         avgLat |-> prop(hotspots[i], "avgLat"),
                         avgLng |-> prop(hotspots[i], "avgLng")]
         IN  <<absorb(cluster, hotspots, SortSet(js))>>
                 \o mergeFrom(hotspots, i + 1, used \cup {i} \cup js, mergeDistance)

mergeAdjacentCells(hotspots, mergeDistance) ==
    IF Len(hotspots) <= 1 THEN hotspots
    ELSE mergeFrom(hotspots, 1, {}, mergeDistance)

\* b.intensity - a.intensity > 0
greater(b, a) == b.value > a.value \/ (b.value = a.value /\ b.err > a.err)

unsorted(hotspots) == hotspots

\* .sort((a, b) => b.intensity - a.intensity): descending, and stable, so
\* that hotspots of one intensity keep their order
RECURSIVE sortByIntensity(_)
sortByIntensity(hotspots) ==
    IF hotspots = <<>> THEN <<>>
    ELSE LET top == CHOOSE k \in DOMAIN hotspots :
                        \A j \in DOMAIN hotspots :
                            ~greater(hotspots[j].intensity, hotspots[k].intensity)
             highest == hotspots[top].intensity
         IN  SelectSeq(hotspots, LAMBDA h : h.intensity = highest)
                 \o sortByIntensity(SelectSeq(hotspots, LAMBDA h : h.intensity # highest))

calculateGeographicCenter(markers) ==
    IF Len(markers) = 0
    THEN [lat |-> [num |-> 0, den |-> 1], lng |-> [num |-> 0, den |-> 1]]
    ELSE [lat |-> [num |-> Sum([k \in DOMAIN markers |-> markers[k].lat]), den |-> Len(markers)],
          lng |-> [num |-> Sum([k \in DOMAIN markers |-> markers[k].lng]), den |-> Len(markers)]]

\* Step 4: .slice(0, 50).map(...), radius, name and description left out
topHotspots(sorted) ==
    [k \in 1..Min(Len(sorted), hotspotListSize) |->
        LET center == calculateGeographicCenter(sorted[k].markers)
        IN  Merge(sorted[k], [rank |-> k, lat |-> center.lat, lng |-> center.lng])]

\* findHotspots(markers) at time t: the returned list, the instance after the
\* call and whether the list came from the cache
findHotspots(markers, su, t) ==
    IF ~su.hotspotCache.null /\ (t - su.lastHotspotCalculation) < hotspotCacheDuration
    THEN [result |-> su.hotspotCache.value, su |-> su, cached |-> TRUE]
    ELSE IF Len(markers) = 0 THEN [result |-> <<>>, su |-> su, cached |-> FALSE]
    ELSE LET cells == grid(markers)
             hotspots == [c \in DOMAIN cells |-> cellHotspot(cells[c])]
             mergedHotspots == mergeAdjacentCells(hotspots, (gridSize * 3) \div 2)
             top == topHotspots(sortByIntensity(mergedHotspots))
         IN  [result |-> top,
              su |-> [hotspotCache |-> [null |-> FALSE, value |-> top],
                      lastHotspotCalculation |-> t],
              cached |-> FALSE]

\* the variables of the ACS service, which the map code does not touch
service == <<db, cachePromise, sweepNow, store, memoryCache, currentProxyIndex,
             inv, calls, clr, clears, env, put, memGhost>>

\* one call this.spatialUtils.findHotspots(markers)
callFindHotspots(markers) ==
    LET r == findHotspots(markers, spatialUtils, now)
    IN  /\ spatialUtils' = r.su
        /\ hotspotCall' = [called |-> TRUE, markers |-> markers,
                           result |-> r.result, cached |-> r.cached]
        /\ cleared' = FALSE
        /\ UNCHANGED <<now, ticks, service, navigator, visualizer, ringApp>>

\* the example of the hotspot contract
ExampleMarkers ==
    << Marker(1, 4000, -10000, TRUE, FALSE),
       Marker(2, 4005, -10005, TRUE, TRUE),
       Marker(3, 4500, -9000, FALSE, TRUE) >>

\* density members in one cell, the first two with both criteria
CrowdedCell(density) ==
    [k \in 1..density |-> Marker(k, 4000 + ((k - 1) % gridSize), -10000, TRUE, k <= 2)]

\* n markers in n cells, every third with both criteria
ManyCells(n) ==
    [k \in 1..n |-> Marker(k, 2000 + 100 * (k % 7), -12000 + 100 * k, TRUE, k % 3 = 0)]

HotspotInputs ==
    { <<>>, ExampleMarkers, CrowdedCell(gridSize + 1), ManyCells(hotspotListSize + 2) }

NextHotspots ==
    \/ \E markers \in HotspotInputs : callFindHotspots(markers)
    \/ \E d \in {1, hotspotCacheDuration} : Tick(d)

InitHotspots ==
    /\ InitCommon
    /\ store = EmptyMap
    /\ upstream = "flaky"

SpecHotspots == InitHotspots /\ [][NextHotspots]_vars

(***************************************************************************)
(* Properties of hotspot detection                                         *)
(***************************************************************************)
\* the centre of one grid cell, as mergeAdjacentCells names it
centroid(cell) ==
    [avgLat |-> [num |-> cell.avgLat, den |-> cell.count],
     avgLng |-> [num |-> cell.avgLng, den |-> cell.count]]

\* C12: a list computed by findHotspots holds the markers of two grid cells
\* whose centroids are less than 1.5 x gridSize apart in one hotspot; for the
\* example markers it is one hotspot of intensity 4 ranked 1 with the first
\* two markers, followed by one of intensity 1 with the third
C12_AdjacentCellMerging ==
    (hotspotCall.called /\ ~hotspotCall.cached) =>
        LET cells == grid(hotspotCall.markers)
            r == hotspotCall.result
        IN  /\ \A a, b \in DOMAIN cells :
                   closerThan(centroid(cells[a]), centroid(cells[b]), (gridSize * 3) \div 2)
                       => \E k \in DOMAIN r :
                              Range(cells[a].markers) \cup Range(cells[b].markers)
                                  \subseteq Range(r[k].markers)
            /\ hotspotCall.markers = ExampleMarkers =>
                   /\ Len(r) = 2
                   /\ r[1].rank = 1
                   /\ r[1].intensity = [value |-> 4, err |-> 0]
                   /\ Range(r[1].markers) = {ExampleMarkers[1], ExampleMarkers[2]}
                   /\ r[2].intensity = [value |-> 1, err |-> 0]
                   /\ Range(r[2].markers) = {ExampleMarkers[3]}

Weight(marker) ==
    IF marker.hasEducation /\ marker.hasIncome THEN 3
    ELSE IF marker.hasEducation \/ marker.hasIncome THEN 1
    ELSE 0

C15_EmptyInputEmptyList ==
    (hotspotCall.called /\ hotspotCall.markers = <<>>) => hotspotCall.result = <<>>

(***************************************************************************)
(* ACSMapVisualizer: data load and hotspot display.  A pending setTimeout  *)
(* is [delay, run, markerData]; `timers` holds them in the order in which  *)
(* they were set.                                                          *)
(***************************************************************************)
allDataPoints(acsData) == acsData

\* prepareDataPoints: records with neither criterion give no marker
prepareDataPoints(acsData) ==
    SelectSeq(acsData, LAMBDA record : record.hasEducation \/ record.hasIncome)

\* clear(): markers and hotspots are emptied (circles are kept)
clear(v) == [v EXCEPT !.markers = <<>>, !.hotspots = <<>>]

\* calculateAndShowHotspots() up to its setTimeout(..., 100); markerData is
\* taken from this.markers now
calculateAndShowHotspots(v) ==
    IF v.isCalculatingHotspots THEN v
    ELSE [v EXCEPT !.isCalculatingHotspots = TRUE,
                   !.hotspots = <<>>,
                   !.timers = Append(@, [delay |-> 100, run |-> "findHotspots",
                                         markerData |-> v.markers])]

\* hotspots.map(...): rank and totalCount, the county name left out
namedHotspots(hotspots) ==
    [k \in DOMAIN hotspots |->
        Merge(hotspots[k], [rank |-> k, totalCount |-> Len(hotspots[k].markers)])]

\* visualizeCombinedData(zipData, acsData)
visualizeCombinedData(acsData) ==
    /\ visualizer.loads < MaxLoads
    /\ visualizer' =
           LET v == [clear(visualizer) EXCEPT !.loads = @ + 1]
           IN  IF acsData = <<>> THEN v
               ELSE [v EXCEPT !.markers = prepareDataPoints(acsData),
                              !.timers = Append(@, [delay |-> 500,
                                                    run |-> "calculateAndShowHotspots",
                                                    markerData |-> <<>>])]
    /\ cleared' = FALSE
    /\ UNCHANGED <<now, ticks, service, navigator, spatialUtils, hotspotCall, ringApp>>

\* the Show Hotspots button
showHotspotsClick ==
    /\ visualizer.clicks < MaxClicks
    /\ visualizer' = [calculateAndShowHotspots(visualizer) EXCEPT !.clicks = @ + 1]
    /\ cleared' = FALSE
    /\ UNCHANGED <<now, ticks, service, navigator, spatialUtils, hotspotCall, ringApp>>

\* timer k can be the next to run: no timer set before it has a delay that
\* is not longer
due(k) ==
    /\ k \in DOMAIN visualizer.timers
    /\ \A j \in 1..(k - 1) : visualizer.timers[j].delay > visualizer.timers[k].delay

withoutTimer(v, k) ==
    [v EXCEPT !.timers = SubSeq(@, 1, k - 1) \o SubSeq(@, k + 1, Len(@))]

\* the callback set by visualizeCombinedData (loadSavedCircles left out)
loadTimeout(k) ==
    /\ due(k)
    /\ visualizer.timers[k].run = "calculateAndShowHotspots"
    /\ visualizer' = calculateAndShowHotspots(withoutTimer(visualizer, k))
    /\ cleared' = FALSE
    /\ UNCHANGED <<now, ticks, service, navigator, spatialUtils, hotspotCall, ringApp>>

\* window.acsApp.updateHotspotList(namedHotspots): a TypeError when the
\* application has no such method
updateHotspotListThrows(acsApp) == acsApp = "circlesList"

\* the callback set by calculateAndShowHotspots
hotspotTimeout(k) ==
    /\ due(k)
    /\ visualizer.timers[k].run = "findHotspots"
    /\ LET markerData == visualizer.timers[k].markerData
           r == findHotspots(markerData, spatialUtils, now)
       IN  /\ spatialUtils' = r.su
           /\ hotspotCall' = [called |-> TRUE, markers |-> markerData,
                              result |-> r.result, cached |-> r.cached]
           /\ visualizer' = [withoutTimer(visualizer, k) EXCEPT
                                 !.hotspots = namedHotspots(r.result),
                                 !.isCalculatingHotspots =
                                     updateHotspotListThrows(visualizer.acsApp)]
    /\ cleared' = FALSE
    /\ UNCHANGED <<now, ticks, service, navigator, ringApp>>

\* d seconds pass; every timer set before has run by then
elapse(d) ==
    /\ visualizer.timers = <<>>
    /\ Tick(d)

OtherMarkers ==
    << Marker(4, 3000, -8000, FALSE, TRUE), Marker(5, 3300, -8000, FALSE, FALSE) >>

LoadInputs == { <<>>, ExampleMarkers, OtherMarkers }

NextRefresh ==
    \/ \E acsData \in LoadInputs : visualizeCombinedData(acsData)
    \/ showHotspotsClick
    \/ \E k \in 1..(MaxLoads + MaxClicks) : loadTimeout(k) \/ hotspotTimeout(k)
    \/ \E d \in {1, hotspotCacheDuration} : elapse(d)

SpecRefresh == InitHotspots /\ [][NextRefresh]_vars

\* the hotspots of a marker set, computed without any earlier result
freshHotspots(markers) == namedHotspots(findHotspots(markers, NewSpatialUtils, 0).result)

\* C16: when a marker set is loaded and no calculation is pending any more,
\* the stored hotspot list is the one computed from that marker set
C16_ForcedRefresh ==
    (visualizer.markers # <<>> /\ visualizer.timers = <<>>) =>
        visualizer.hotspots = freshHotspots(visualizer.markers)

(***************************************************************************)
(* ACSMapVisualizer with rings.  Markers and ring centres lie on one       *)
(* meridian; a position is its distance from a reference point and every   *)
(* length is in centimetres, so that the radii are integers.               *)
(***************************************************************************)
innerRadiusMiles == 5

middleRadiusMiles == 10

outerRadiusMiles == 25

circleOuterRadiusMiles == 20

MAX_RADIUS_MILES == 5

\* the smallest drag a click turns into rings is above 100 m
minDragMeters == 100 * 100

milesToMeters == 160934

DataPoint(zip, at, hasEducation, hasIncome, totalHigherEd) ==
    [zip |-> zip, at |-> at, hasEducation |-> hasEducation, hasIncome |-> hasIncome,
     totalHigherEd |-> totalHigherEd]

\* haversineDistance(p1, p2) of two points of one meridian
haversineDistance(p1, p2) == IF p1 >= p2 THEN p1 - p2 ELSE p2 - p1

\* the counters and sums over the markers of a region (totalHighIncome and
\* the median income left out)
regionStats(inside) ==
    LET both == SelectSeq(inside, LAMBDA m : m.hasEducation /\ m.hasIncome)
        education == SelectSeq(inside, LAMBDA m : ~(m.hasEducation /\ m.hasIncome)
                                                  /\ m.hasEducation)
        income == SelectSeq(inside, LAMBDA m : ~m.hasEducation /\ m.hasIncome)
    IN  [totalMarkers |-> Len(inside),
         educationOnly |-> Len(education),
         incomeOnly |-> Len(income),
         bothCriteria |-> Len(both),
         totalEducation |-> Sum([k \in DOMAIN inside |-> inside[k].totalHigherEd])]

\* SpatialUtils.calculateCircleStats(markers, center, radiusMeters)
calculateCircleStats(markers, center, radiusMeters) ==
    regionStats(SelectSeq(markers,
        LAMBDA m : haversineDistance(center, m.at) <= radiusMeters))

\* calculateDonutStats(center, minMeters, maxMeters) over this.markers
calculateDonutStats(markers, center, minMeters, maxMeters) ==
    regionStats(SelectSeq(markers,
        LAMBDA m : /\ haversineDistance(center, m.at) > minMeters
                   /\ haversineDistance(center, m.at) <= maxMeters))

\* the [min, max] pairs of the three plain bands
donutBands ==
    [inner |-> <<0, innerRadiusMiles * milesToMeters>>,
     middle |-> <<innerRadiusMiles * milesToMeters, middleRadiusMiles * milesToMeters>>,
     outer |-> <<middleRadiusMiles * milesToMeters, outerRadiusMiles * milesToMeters>>]

weightedBandsChained(inner, middle, outer) ==
    [inner |-> <<0, inner * 3 * milesToMeters>>,
     middle |-> <<inner * 3 * milesToMeters, middle * 2 * milesToMeters>>,
     outer |-> <<middle * 2 * milesToMeters, outer * milesToMeters>>]

\* the [min, max] pairs of the three weighted bands: radius x 3, x 2 and,
\* for the outer one, the plain band
weightedBands(inner, middle, outer) ==
    [inner |-> <<0, inner * 3 * milesToMeters>>,
     middle |-> <<inner * 3 * milesToMeters, middle * 2 * milesToMeters>>,
     outer |-> <<middle * milesToMeters, outer * milesToMeters>>]

bandStats(markers, center, bands) ==
    [b \in {"inner", "middle", "outer"} |->
        calculateDonutStats(markers, center, bands[b][1], bands[b][2])]

\* the ringData object built by finishDrawing (locations and timestamp left
\* out); `over` is history: the markers the statistics were computed over
ringData(ringId, center, markers, t) ==
    [id |-> ringId,
     center |-> center,
     layers |-> TRUE,
     radii |-> [inner |-> innerRadiusMiles, middle |-> middleRadiusMiles,
                outer |-> outerRadiusMiles],
     donutStats |-> bandStats(markers, center, donutBands),
     weightedStats |-> bandStats(markers, center,
                                 weightedBands(innerRadiusMiles, middleRadiusMiles,
                                               outerRadiusMiles)),
     created |-> t,
     over |-> markers]

\* saveRings(): JSON.stringify of the listed fields, the layers are not among them
saveRings(rings) ==
    [k \in DOMAIN rings |->
        [f \in (DOMAIN rings[k]) \ {"layers"} |-> rings[k][f]]]

\* recreateRing(ringData): new layers, every other field as it was saved
recreateRing(saved) ==
    [id |-> saved.id, center |-> saved.center, layers |-> TRUE, radii |-> saved.radii,
     donutStats |-> saved.donutStats, weightedStats |-> saved.weightedStats,
     created |-> saved.created, over |-> saved.over]

\* the stats of the three circles of the triple-circle map, each over the
\* whole disc of its radius
circleStats(markers, center, radii) ==
    [b \in {"inner", "middle", "outer"} |->
        calculateCircleStats(markers, center, radii[b] * milesToMeters)]

\* the circleData object built by finishDrawing of the triple-circle map
circleData(circleId, center, markers, t) ==
    LET radii == [inner |-> innerRadiusMiles, middle |-> middleRadiusMiles,
                  outer |-> circleOuterRadiusMiles]
    IN  [id |-> circleId, center |-> center, layers |-> TRUE, radii |-> radii,
         stats |-> circleStats(markers, center, radii), created |-> t]

\* saveCircles(): id, center, radii and created of every circle
saveCircles(circles) ==
    [k \in DOMAIN circles |->
        [id |-> circles[k].id, center |-> circles[k].center,
         radii |-> circles[k].radii, created |-> circles[k].created]]

\* recreateCircle(circleData): the saved radii, the stats computed again
recreateCircle(saved, markers) ==
    [id |-> saved.id, center |-> saved.center, layers |-> TRUE, radii |-> saved.radii,
     stats |-> circleStats(markers, saved.center, saved.radii),
     created |-> saved.created]

\* what saveRings() / saveCircles() writes to localStorage
persisted(r) ==
    IF r.variant = "rings" THEN saveRings(r.rings) ELSE saveCircles(r.rings)

\* cancelDrawing(): the temporary circle is removed, the drawing state reset
cancelDrawing(r) ==
    [r EXCEPT !.tempCircle = NoCircle, !.isDrawing = FALSE, !.drawingLock = FALSE,
              !.startPoint = NoPoint]

\* startDrawing(startLatLng)
startDrawing(r, startLatLng) ==
    IF r.drawingLock \/ r.isDrawing
    THEN r
    ELSE [r EXCEPT !.drawingLock = TRUE,
                   !.isDrawing = TRUE,
                   !.startPoint = [null |-> FALSE, at |-> startLatLng],
                   !.tempCircle = [null |-> FALSE, radius |-> 0],
                   !.notification = "info"]

\* finishDrawing(baseRadiusMeters) at time t: the ring gets the fixed radii,
\* is added to the Map and to the creation order, and the rings are saved
finishDrawing(r, baseRadiusMeters, t) ==
    IF ~r.isDrawing \/ r.tempCircle.null \/ r.startPoint.null
    THEN cancelDrawing(r)
    ELSE LET ringId == <<t, r.ringCounter>>
             center == r.startPoint.at
             ring == IF r.variant = "rings"
                     THEN ringData(ringId, center, r.markers, t)
                     ELSE circleData(ringId, center, r.markers, t)
             added == [r EXCEPT !.ringCounter = @ + 1,
                                !.rings = Append(@, ring),
                                !.ringCreationOrder = Append(@, ringId)]
         IN  cancelDrawing([added EXCEPT !.storage = persisted(added),
                                         !.saved = TRUE,
                                         !.notification = "success"])

\* the radius a mouse event at latlng gives the drawing: the distance from
\* the start point, capped at 5 miles on the ring map
drawnRadius(r, latlng) ==
    LET rawDistance == haversineDistance(r.startPoint.at, latlng)
    IN  IF r.variant = "rings"
        THEN Min(rawDistance, MAX_RADIUS_MILES * milesToMeters)
        ELSE rawDistance

\* without the first occurrence of x
spliceFirst(seq, x) ==
    IF \E k \in DOMAIN seq : seq[k] = x
    THEN LET index == CHOOSE k \in DOMAIN seq :
                          seq[k] = x /\ \A j \in 1..(k - 1) : seq[j] # x
         IN  SubSeq(seq, 1, index - 1) \o SubSeq(seq, index + 1, Len(seq))
    ELSE seq

\* removeRing that does not save
removeRingUnsaved(r, ringId) ==
    [r EXCEPT !.rings = SelectSeq(@, LAMBDA ring : ring.id # ringId),
              !.ringCreationOrder = spliceFirst(@, ringId)]

\* removeRing that saves whether or not the ring exists
removeRingAlwaysSaves(r, ringId) ==
    LET left == [r EXCEPT !.rings = SelectSeq(@, LAMBDA ring : ring.id # ringId),
                          !.ringCreationOrder = spliceFirst(@, ringId)]
    IN  [left EXCEPT !.storage = persisted(left), !.saved = TRUE,
                     !.notification = "info"]

\* removeRing(ringId) / removeCircle(circleId)
removeRing(r, ringId) ==
    IF \E k \in DOMAIN r.rings : r.rings[k].id = ringId
    THEN LET left == [r EXCEPT !.rings = SelectSeq(@, LAMBDA ring : ring.id # ringId),
                               !.ringCreationOrder = spliceFirst(@, ringId)]
         IN  [left EXCEPT !.storage = persisted(left), !.saved = TRUE,
                          !.notification = "info"]
    ELSE r

\* clearAllRings() / clearAllCircles(): the stored item is removed
clearAllRings(r) ==
    [cancelDrawing(r) EXCEPT !.rings = <<>>, !.ringCreationOrder = <<>>,
                             !.storage = <<>>, !.saved = FALSE,
                             !.notification = "info"]

\* loadSavedRings() / loadSavedCircles(): nothing saved, nothing done;
\* otherwise the Map and the creation order are emptied and every saved
\* ring is recreated
loadSavedRings(r) ==
    IF ~r.saved
    THEN r
    ELSE LET recreated ==
                 [k \in DOMAIN r.storage |->
                     IF r.variant = "rings"
                     THEN recreateRing(r.storage[k])
                     ELSE recreateCircle(r.storage[k], r.markers)]
         IN  [r EXCEPT !.rings = recreated,
                       !.ringCreationOrder = [k \in DOMAIN recreated |-> recreated[k].id],
                       !.notification = IF recreated = <<>> THEN @ ELSE "info"]

\* a right click at center followed by a left click one inner radius away,
\* with no other handler in between
drawRing(center) ==
    /\ ringApp.ringCounter < MaxRings
    /\ ~ringApp.isDrawing
    /\ LET drawing == startDrawing(ringApp, center)
           radius == drawnRadius(drawing, center + innerRadiusMiles * milesToMeters)
       IN  ringApp' = [finishDrawing(drawing, radius, now) EXCEPT
                          !.event = [name |-> "click", arg |-> <<radius>>,
                                     changed |-> TRUE]]
    /\ cleared' = FALSE
    /\ UNCHANGED <<now, ticks, service, navigator, spatialUtils, hotspotCall, visualizer>>

\* visualizeCombinedData of the ring map: clear() empties the markers and
\* keeps this.rings; the saved rings are loaded 500 ms later
ringsVisualizeCombinedData(acsData) ==
    /\ ringApp.loads < MaxLoads
    /\ ringApp' =
           IF acsData = <<>>
           THEN [ringApp EXCEPT !.markers = <<>>, !.loads = @ + 1, !.reloaded = FALSE]
           ELSE [ringApp EXCEPT !.markers = prepareDataPoints(acsData),
                                !.loads = @ + 1,
                                !.pending = @ + 1,
                                !.reloaded = FALSE]
    /\ cleared' = FALSE
    /\ UNCHANGED <<now, ticks, service, navigator, spatialUtils, hotspotCall, visualizer>>

\* a setTimeout callback runs loadSavedRings()
savedRingsTimeout ==
    /\ ringApp.pending > 0
    /\ ringApp' = [loadSavedRings(ringApp) EXCEPT !.pending = @ - 1,
                                                  !.reloaded = TRUE]
    /\ cleared' = FALSE
    /\ UNCHANGED <<now, ticks, service, navigator, spatialUtils, hotspotCall, visualizer>>

\* calculateCircleStatsWithRadius(center, radiusMeters) of the circle map,
\* whose markers come from the same prepareDataPoints
calculateCircleStatsWithRadius(center, radiusMeters) ==
    /\ ringApp' = [ringApp EXCEPT
                      !.circleStats = calculateCircleStats(ringApp.markers, center,
                                                           radiusMeters)]
    /\ cleared' = FALSE
    /\ UNCHANGED <<now, ticks, service, navigator, spatialUtils, hotspotCall, visualizer>>

\* ZIPs at 0, 4, 5, 7, 10, 17, 25 and 30 miles, and one without criterion
RingData ==
    << DataPoint(1, 0, TRUE, FALSE, 1200),
       DataPoint(2, 4 * milesToMeters, TRUE, TRUE, 3000),
       DataPoint(3, innerRadiusMiles * milesToMeters, FALSE, TRUE, 0),
       DataPoint(4, 7 * milesToMeters, TRUE, TRUE, 1500),
       DataPoint(5, middleRadiusMiles * milesToMeters, TRUE, FALSE, 1000),
       DataPoint(6, 17 * milesToMeters, FALSE, TRUE, 10),
       DataPoint(7, outerRadiusMiles * milesToMeters, TRUE, FALSE, 2000),
       DataPoint(8, 30 * milesToMeters, FALSE, TRUE, 0),
       DataPoint(9, 2 * milesToMeters, FALSE, FALSE, 500) >>

OtherRingData == << DataPoint(10, 12 * milesToMeters, TRUE, TRUE, 4000) >>

RingInputs == { <<>>, RingData, OtherRingData }

Centers == { 0, milesToMeters }

NextRings ==
    \/ \E acsData \in RingInputs : ringsVisualizeCombinedData(acsData)
    \/ savedRingsTimeout
    \/ \E center \in Centers : drawRing(center)
    \/ \E center \in Centers :
           calculateCircleStatsWithRadius(center, innerRadiusMiles * milesToMeters)
    \/ \E d \in {1} : Tick(d)

SpecRings == InitHotspots /\ [][NextRings]_vars

(***************************************************************************)
(* Properties of the region statistics and the rings                       *)
(***************************************************************************)
Bands == {"inner", "middle", "outer"}

\* the statistics records the program holds: those of every ring and the
\* result of the last calculateCircleStats call
heldStats ==
    {ringApp.circleStats}
        \cup {ringApp.rings[k].donutStats[b] : k \in DOMAIN ringApp.rings, b \in Bands}
        \cup {ringApp.rings[k].weightedStats[b] : k \in DOMAIN ringApp.rings, b \in Bands}

\* C17: in every statistics record returned by calculateCircleStats or
\* calculateDonutStats the three class counters add up to totalMarkers
C17_CountsPartition ==
    \A stats \in heldStats :
        stats.educationOnly + stats.incomeOnly + stats.bothCriteria = stats.totalMarkers

\* a circle and a band of a ring hold markers of all three classes, while a
\* record without criterion lies inside
C17_Witness ==
    /\ ringApp.circleStats.educationOnly > 0
    /\ ringApp.circleStats.incomeOnly > 0
    /\ ringApp.circleStats.bothCriteria > 0
    /\ \E k \in DOMAIN ringApp.rings :
           LET stats == ringApp.rings[k].weightedStats.inner
           IN  /\ stats.educationOnly > 0
               /\ stats.incomeOnly > 0
               /\ stats.bothCriteria > 0
               /\ ringApp.rings[k].over = prepareDataPoints(RingData)
               /\ \E m \in Range(RingData) :
                      /\ ~m.hasEducation /\ ~m.hasIncome
                      /\ haversineDistance(ringApp.rings[k].center, m.at)
                             <= innerRadiusMiles * milesToMeters

\* the markers among `markers` whose distance d from `center` satisfies
\* low < d <= high (low = -1: no lower limit)
within(markers, center, low, high) ==
    {k \in DOMAIN markers :
        /\ haversineDistance(center, markers[k].at) > low
        /\ haversineDistance(center, markers[k].at) <= high}

\* C18: in a ring just created by finishDrawing the three bands count every
\* marker at distance d <= outer radius once: inner those with d <= inner
\* radius, middle those with inner < d <= middle, outer those with
\* middle < d <= outer
C18_DonutBandsPartition ==
    \A k \in DOMAIN ringApp.rings :
        LET ring == ringApp.rings[k]
            markers == ringApp.rings[k].over
            inner == innerRadiusMiles * milesToMeters
            middle == middleRadiusMiles * milesToMeters
            outer == outerRadiusMiles * milesToMeters
        IN  /\ ring.donutStats.inner.totalMarkers
                   = Cardinality(within(markers, ring.center, -1, inner))
            /\ ring.donutStats.middle.totalMarkers
                   = Cardinality(within(markers, ring.center, inner, middle))
            /\ ring.donutStats.outer.totalMarkers
                   = Cardinality(within(markers, ring.center, middle, outer))

\* C19: in every ring of the active set, drawn or recreated from storage,
\* weightedStats.outer equals donutStats.outer
C19_WeightedOuterIsPlainOuter ==
    \A k \in DOMAIN ringApp.rings :
        ringApp.rings[k].weightedStats.outer = ringApp.rings[k].donutStats.outer

\* a ring recreated from storage after a later data load, whose outer band
\* is not empty and whose weighted middle band differs from the plain one
C19_Witness ==
    /\ ringApp.reloaded
    /\ ringApp.pending = 0
    /\ ringApp.loads = MaxLoads
    /\ \E k \in DOMAIN ringApp.rings :
           /\ ringApp.rings[k].over # ringApp.markers
           /\ ringApp.rings[k].donutStats.outer.totalMarkers > 1
           /\ ringApp.rings[k].weightedStats.middle # ringApp.rings[k].donutStats.middle

\* C20: when the saved rings have been reloaded after a data load, the
\* statistics of every ring are those of the loaded markers over its bands
C20_RingStatsFollowMarkers ==
    (ringApp.loads > 0 /\ ringApp.reloaded /\ ringApp.pending = 0) =>
        \A k \in DOMAIN ringApp.rings :
            LET ring == ringApp.rings[k]
            IN  /\ ring.donutStats = bandStats(ringApp.markers, ring.center, donutBands)
                /\ ring.weightedStats
                       = bandStats(ringApp.markers, ring.center,
                                   weightedBands(innerRadiusMiles, middleRadiusMiles,
                                                 outerRadiusMiles))

(***************************************************************************)
(* Drawing, removing, clearing and reloading rings: the handlers of the    *)
(* map and of the keyboard, and the page being loaded again                *)
(***************************************************************************)
MaxReloads == 1

\* a handler has run: what it leaves behind, and its name and argument
handled(name, arg, after) ==
    /\ ringApp' = [after EXCEPT !.event = [name |-> name, arg |-> arg,
                                           changed |-> after # ringApp]]
    /\ cleared' = FALSE
    /\ UNCHANGED <<now, ticks, service, navigator, spatialUtils, hotspotCall, visualizer>>

isDragging(r) == r.isDrawing /\ ~r.tempCircle.null /\ ~r.startPoint.null

\* map.on('contextmenu'): the right click starts a drawing unless one is under way
mapContextmenu(latlng) ==
    handled("contextmenu", <<latlng>>,
            IF ringApp.drawingLock \/ ringApp.isDrawing
            THEN ringApp
            ELSE startDrawing(ringApp, latlng))

\* map.on('mousemove'): the temporary circle follows the mouse
mapMousemove(latlng) ==
    handled("mousemove", <<latlng>>,
            IF isDragging(ringApp)
            THEN [ringApp EXCEPT !.tempCircle.radius = drawnRadius(ringApp, latlng)]
            ELSE ringApp)

\* the click handler that accepts a drag of exactly the threshold
clickAtLeast(r, latlng, t) ==
    IF isDragging(r)
    THEN IF drawnRadius(r, latlng) >= minDragMeters
         THEN finishDrawing(r, drawnRadius(r, latlng), t)
         ELSE [cancelDrawing(r) EXCEPT !.notification = "warning"]
    ELSE r

\* the click handler that keeps the dragged radius as the inner radius
clickKeepsRadius(r, latlng, t) ==
    IF isDragging(r)
    THEN IF drawnRadius(r, latlng) > minDragMeters
         THEN LET done == finishDrawing(r, drawnRadius(r, latlng), t)
                  last == Len(done.rings)
              IN  [done EXCEPT !.rings[last].radii.inner = drawnRadius(r, latlng)]
         ELSE [cancelDrawing(r) EXCEPT !.notification = "warning"]
    ELSE r

\* the click handler that leaves the drawing state as it is when the drag
\* is too small
clickKeepsDragging(r, latlng, t) ==
    IF isDragging(r)
    THEN IF drawnRadius(r, latlng) > minDragMeters
         THEN finishDrawing(r, drawnRadius(r, latlng), t)
         ELSE [r EXCEPT !.notification = "warning"]
    ELSE r

\* map.on('click') at time t
click(r, latlng, t) ==
    IF isDragging(r)
    THEN IF drawnRadius(r, latlng) > minDragMeters
         THEN finishDrawing(r, drawnRadius(r, latlng), t)
         ELSE [cancelDrawing(r) EXCEPT !.notification = "warning"]
    ELSE r

mapClick(latlng) ==
    /\ (isDragging(ringApp) /\ drawnRadius(ringApp, latlng) > minDragMeters)
           => ringApp.ringCounter < MaxRings
    /\ handled("click", <<IF isDragging(ringApp)
                          THEN drawnRadius(ringApp, latlng) ELSE 0>>,
               click(ringApp, latlng, now))

\* keydown 'escape'
keyEscape == handled("escape", <<>>, cancelDrawing(ringApp))

\* keydown 'c'
keyC == handled("clearAllRings", <<>>, clearAllRings(ringApp))

\* the ids removeRing may be called with: of a ring on the map, of a ring
\* only in the storage, or the one of the call before
knownIds ==
    {ringApp.rings[k].id : k \in DOMAIN ringApp.rings}
        \cup {ringApp.storage[k].id : k \in DOMAIN ringApp.storage}
        \cup (IF ringApp.event.name = "removeRing" THEN {ringApp.event.arg} ELSE {})

\* the right click on a ring, or the ring list, calls removeRing(ringId)
callRemoveRing(ringId) == handled("removeRing", ringId, removeRing(ringApp, ringId))

\* the page is loaded again, later: a new visualizer over the same localStorage
pageReload ==
    /\ ringApp.sessions < MaxReloads
    /\ ringApp' = [(IF ringApp.variant = "rings" THEN NewRingApp ELSE NewCircleApp)
                      EXCEPT !.storage = ringApp.storage,
                             !.saved = ringApp.saved,
                             !.sessions = ringApp.sessions + 1]
    /\ now' = now + 1
    /\ cleared' = FALSE
    /\ UNCHANGED <<ticks, service, navigator, spatialUtils, hotspotCall, visualizer>>

\* drags of 0 m, just below, at and just above 100 m, and of 6 miles
Drags == {0, minDragMeters - 1, minDragMeters, minDragMeters + 1, 6 * milesToMeters}

\* the mouse is `drag` away from the start point (from the reference point
\* when nothing is being drawn)
mouseAt(drag) == ringApp.startPoint.at + drag

NextDrawing ==
    \/ \E latlng \in Centers : mapContextmenu(latlng)
    \/ \E drag \in {minDragMeters, 6 * milesToMeters} : mapMousemove(mouseAt(drag))
    \/ \E drag \in Drags : mapClick(mouseAt(drag))
    \/ keyEscape
    \/ keyC
    \/ \E ringId \in knownIds : callRemoveRing(ringId)
    \/ savedRingsTimeout
    \/ pageReload

InitDrawing ==
    /\ InitService
    /\ store = EmptyMap
    /\ upstream = "flaky"
    /\ visualizer = NewVisualizer
    /\ ringApp \in {NewRingApp, NewCircleApp}
    /\ navigator = NewNavigator

SpecDrawing == InitDrawing /\ [][NextDrawing]_vars

(***************************************************************************)
(* Properties of the ring set, its storage and the drawing state           *)
(***************************************************************************)
ringIds(rings) == {rings[k].id : k \in DOMAIN rings}

\* the last handler created a ring, removed one, or cleared them all
ringSetChanged ==
    \/ ringApp.event.name = "click" /\ ringApp.notification = "success"
    \/ ringApp.event.name = "removeRing" /\ ringApp.event.changed
    \/ ringApp.event.name = "clearAllRings"

policyRadii(variant) ==
    [inner |-> innerRadiusMiles, middle |-> middleRadiusMiles,
     outer |-> IF variant = "rings" THEN outerRadiusMiles ELSE circleOuterRadiusMiles]

\* C22: every ring of the active set has the policy radii, 5/10/25 miles on
\* the ring map and 5/10/20 miles on the triple-circle map, whatever was
\* dragged and whether the ring was drawn or recreated from the storage
C22_FixedPolicyRadii ==
    \A k \in DOMAIN ringApp.rings :
        ringApp.rings[k].radii = policyRadii(ringApp.variant)

\* a ring recreated from the storage of an earlier page load, and after it
\* a ring drawn with a drag of just over 100 m
C22_Witness ==
    /\ ringApp.sessions > 0
    /\ Len(ringApp.rings) = 2
    /\ ringApp.rings[1].created < ringApp.rings[2].created
    /\ ringApp.event.name = "click"
    /\ ringApp.event.arg = <<minDragMeters + 1>>
    /\ ringApp.notification = "success"

\* nothing is being drawn: the four parts of the drawing state are unset
isIdle(r) == ~r.isDrawing /\ ~r.drawingLock /\ r.startPoint.null /\ r.tempCircle.null

\* a click that ends a drawing either creates exactly one ring, when the
\* drawn radius passes the gate, or creates none, leaves the rings and the
\* storage as they are and warns; either way nothing is being drawn after it
commitGate(passes(_)) ==
    (ringApp'.event.name = "click" /\ isDragging(ringApp)) =>
        /\ isIdle(ringApp')
        /\ IF passes(ringApp'.event.arg[1])
           THEN /\ Len(ringApp'.rings) = Len(ringApp.rings) + 1
                /\ SubSeq(ringApp'.rings, 1, Len(ringApp.rings)) = ringApp.rings
                /\ ringApp'.rings[Len(ringApp'.rings)].center = ringApp.startPoint.at
                /\ ringApp'.storage = persisted(ringApp')
                /\ ringApp'.saved
           ELSE /\ ringApp'.rings = ringApp.rings
                /\ ringApp'.ringCreationOrder = ringApp.ringCreationOrder
                /\ ringApp'.storage = ringApp.storage
                /\ ringApp'.saved = ringApp.saved
                /\ ringApp'.notification = "warning"

atLeast100m(radius) == radius >= minDragMeters

above100m(radius) == radius > minDragMeters

\* C23 as stated: a commit below 100 m creates no ring, changes neither the
\* active set nor the persisted list, warns and returns to Idle; a commit
\* of 100 m or more creates exactly one ring
C23_AtLeast100mCreates == [][commitGate(atLeast100m)]_vars

\* C23: a commit of at most 100 m creates no ring, changes neither the
\* active set nor the persisted list, warns and returns to Idle; a commit
\* of more than 100 m creates exactly one ring
C23_MinimumDragGate == [][commitGate(above100m)]_vars

\* a drag of exactly 100 m was committed and rejected
C23_Witness ==
    /\ ringApp.event.name = "click"
    /\ ringApp.event.arg = <<minDragMeters>>
    /\ ringApp.event.changed
    /\ ringApp.notification = "warning"
    /\ isIdle(ringApp)

\* C24: removeRing(id) with an id that is not in the active set, as in a
\* second call for the same ring, changes neither the active set, the
\* creation order nor the stored ring list
C24_RemoveRingIdempotent ==
    [][(/\ ringApp'.event.name = "removeRing"
        /\ ringApp'.event # ringApp.event
        /\ ringApp'.event.arg \notin ringIds(ringApp.rings))
       => /\ ringApp'.rings = ringApp.rings
          /\ ringApp'.ringCreationOrder = ringApp.ringCreationOrder
          /\ ringApp'.storage = ringApp.storage
          /\ ringApp'.saved = ringApp.saved]_vars

\* removeRing was called for an id that is only in the storage: the rings
\* of the earlier page load are not on the map yet
C24_Witness ==
    /\ ringApp.event.name = "removeRing"
    /\ ~ringApp.event.changed
    /\ ringApp.rings = <<>>
    /\ ringApp.saved
    /\ ringApp.event.arg \in ringIds(ringApp.storage)

\* what one step of the drawing handlers does to the drawing state
drawingStep ==
    LET event == ringApp'.event
        ran(names) == event.name \in names /\ event # ringApp.event
    IN  /\ (ran({"contextmenu"}) /\ isIdle(ringApp)) =>
               /\ isDragging(ringApp') /\ ringApp'.drawingLock
               /\ ringApp'.startPoint.at = event.arg[1]
        /\ (ran({"contextmenu"}) /\ ~isIdle(ringApp)) =>
               [ringApp' EXCEPT !.event = ringApp.event] = ringApp
        /\ (ran({"mousemove"}) /\ ~isIdle(ringApp)) =>
               /\ isDragging(ringApp')
               /\ ringApp'.startPoint = ringApp.startPoint
        /\ ran({"click"}) => isIdle(ringApp')
        /\ ran({"escape", "clearAllRings"}) => isIdle(ringApp')
        /\ (ran({"mousemove", "click"}) /\ isIdle(ringApp)) =>
               [ringApp' EXCEPT !.event = ringApp.event] = ringApp

\* C28: the drawing is either Idle or Dragging, with isDrawing, drawingLock,
\* "startPoint is set" and "tempCircle is set" all true or all false after
\* every handler; a right click in Idle starts Dragging at its point, one
\* while Dragging changes nothing; every click that ends a drawing and every
\* cancel lead to Idle; a mouse move or a click in Idle changes nothing
C28_TwoStateDrawing ==
    /\ [](isIdle(ringApp) \/ (isDragging(ringApp) /\ ringApp.drawingLock))
    /\ [][drawingStep]_vars

\* a right click elsewhere was ignored while a drawing was under way
C28_Witness ==
    /\ ringApp.event.name = "contextmenu"
    /\ ~ringApp.event.changed
    /\ isDragging(ringApp)
    /\ ringApp.startPoint.at # ringApp.event.arg[1]

(***************************************************************************)
(* Markers from the loaded records, and the W/A/S/D keys.  A coordinate of *)
(* a record is a number or a text that is none: [nan, v], v in tenths of   *)
(* a degree.                                                               *)
(***************************************************************************)
navigationCooldown == 300

MaxKeys == 2

Num(v) == [nan |-> FALSE, v |-> v]

NotANumber == [nan |-> TRUE, v |-> 0]

\* JavaScript's !x for a coordinate: NaN and 0 are falsy, a text that is
\* not a number is truthy until it is parsed
falsy(x, parsed) == IF x.nan THEN parsed ELSE x.v = 0

\* ZIPCodeIndex.addRecord: is the record kept
addRecord(record) ==
    /\ ~falsy(record.lat, FALSE) /\ ~falsy(record.lng, FALSE)
    /\ ~record.lat.nan /\ ~record.lng.nan

\* prepareDataPoints(zipData, acsData): the records the ZIP index holds and
\* that meet a criterion, each with its marker type
ringsPrepareDataPoints(records) ==
    LET kept == SelectSeq(records, LAMBDA r :
                    addRecord(r) /\ (r.hasEducation \/ r.hasIncome))
    IN  [k \in DOMAIN kept |->
            [zip |-> kept[k].zip, lat |-> kept[k].lat, lng |-> kept[k].lng,
             markerType |-> IF kept[k].hasEducation /\ kept[k].hasIncome THEN "both"
                            ELSE IF kept[k].hasEducation THEN "education"
                            ELSE "income"]]

\* createMarker(point): is a marker made
createMarker(point) ==
    ~(falsy(point.lat, TRUE) \/ falsy(point.lng, TRUE) \/ point.lat.nan \/ point.lng.nan)

\* the markers of a load, in the order of this.markers
createMarkers(records) ==
    LET made == SelectSeq(ringsPrepareDataPoints(records), createMarker)
    IN  [k \in DOMAIN made |->
            [zip |-> made[k].zip, lat |-> made[k].lat.v, lng |-> made[k].lng.v,
             markerType |-> made[k].markerType]]

\* Array.sort((a, b) => latB - latA): by latitude, north first, stable
RECURSIVE sortByLatitude(_)
sortByLatitude(list) ==
    IF list = <<>>
    THEN <<>>
    ELSE LET north == CHOOSE k \in DOMAIN list :
                          \A j \in DOMAIN list : list[j].lat <= list[k].lat
             first == SelectSeq(list, LAMBDA m : m.lat = list[north].lat)
         IN  first \o sortByLatitude(SelectSeq(list, LAMBDA m : m.lat # list[north].lat))

\* buildMarkerList that takes the markers of hidden layers too
buildMarkerListOfAll(nav) ==
    IF nav.variant = "distance" THEN sortByLatitude(nav.markers) ELSE nav.markers

\* buildMarkerList(): the markers of the visible layers
buildMarkerList(nav) ==
    LET visible == SelectSeq(nav.markers, LAMBDA m : nav.layerVisibility[m.markerType])
    IN  IF nav.variant = "distance" THEN sortByLatitude(visible) ELSE visible

\* lat > currentLat for 'w', lat < for 's', lng < for 'a', lng > for 'd'
isInDirection(key, marker, center) ==
    \/ key = "w" /\ marker.lat > center.lat
    \/ key = "s" /\ marker.lat < center.lat
    \/ key = "a" /\ marker.lng < center.lng
    \/ key = "d" /\ marker.lng > center.lng

\* latDiff * latDiff + lngDiff * lngDiff: the square of `distance`
squaredDistance(marker, center) ==
    (marker.lat - center.lat) * (marker.lat - center.lat)
        + (marker.lng - center.lng) * (marker.lng - center.lng)

\* the first marker in the direction, whatever its distance
firstInDirection(list, key, center) ==
    LET inDirection == {k \in DOMAIN list : isInDirection(key, list[k], center)}
    IN  IF inDirection = {} THEN 0
        ELSE CHOOSE k \in inDirection : \A j \in inDirection : k <= j

\* the forEach of the distance navigator: the index in the list (from 1) of
\* the first marker in the direction that no other one is closer than, 0
\* when there is none
nearestInDirection(list, key, center) ==
    LET inDirection == {k \in DOMAIN list : isInDirection(key, list[k], center)}
        closer(k, j) == squaredDistance(list[k], center) < squaredDistance(list[j], center)
    IN  IF inDirection = {} THEN 0
        ELSE CHOOSE k \in inDirection :
                 \A j \in inDirection : ~closer(j, k) /\ (closer(k, j) \/ k <= j)

RECURSIVE sqrtFrom(_, _)
sqrtFrom(n, x) ==
    LET y == (x + n \div x) \div 2 IN IF y >= x THEN x ELSE sqrtFrom(n, y)

\* Math.sqrt, to the unit below
sqrt(n) == IF n = 0 THEN 0 ELSE sqrtFrom(n, n)

\* the score of the score navigator, in thousandths: twice the positive
\* part of the cosine between the marker and the key's direction, plus
\* half of 1 / (distance + 0.1), distance in degrees (here to 1/100)
score(key, marker, center) ==
    LET distance == sqrt(100 * squaredDistance(marker, center))
        along == IF key = "w" THEN marker.lat - center.lat
                 ELSE IF key = "s" THEN center.lat - marker.lat
                 ELSE IF key = "a" THEN center.lng - marker.lng
                 ELSE marker.lng - center.lng
        directionScore == IF along > 0 THEN (1000 * 10 * along) \div distance ELSE 0
        distanceScore == 100000 \div (distance + 10)
    IN  2 * directionScore + distanceScore \div 2

\* the forEach of the score navigator: the index of the first marker of the
\* highest score among those not at the center, 0 when the list has none
\* or the score is not above 0.5
bestScored(list, key, center) ==
    LET scored == {k \in DOMAIN list : squaredDistance(list[k], center) # 0}
    IN  IF scored = {} THEN 0
        ELSE LET best == CHOOSE k \in scored :
                             \A j \in scored :
                                 /\ score(key, list[j], center) <= score(key, list[k], center)
                                 /\ score(key, list[j], center) = score(key, list[k], center)
                                        => k <= j
             IN  IF score(key, list[best], center) > 500 THEN best ELSE 0

\* visualizeCombinedData: the markers are made and the marker list built
navVisualizeCombinedData(records) ==
    /\ navigator.loads < MaxLoads
    /\ LET loaded == [navigator EXCEPT !.markers = createMarkers(records),
                                       !.currentMarkerIndex = -1,
                                       !.loads = @ + 1,
                                       !.records = records]
       IN  navigator' = [loaded EXCEPT !.markerList = buildMarkerList(loaded)]
    /\ cleared' = FALSE
    /\ UNCHANGED <<now, ticks, service, spatialUtils, hotspotCall, visualizer, ringApp>>

\* toggleLayer(layerType, visible): updateLayerVisibility builds the list again
toggleLayer(layerType) ==
    /\ LET toggled == [navigator EXCEPT !.layerVisibility[layerType] = ~@]
       IN  navigator' = [toggled EXCEPT !.markerList = buildMarkerList(toggled)]
    /\ cleared' = FALSE
    /\ UNCHANGED <<now, ticks, service, spatialUtils, hotspotCall, visualizer, ringApp>>

\* keydown of 'w', 'a', 's' or 'd', `elapsed` ms after the event before
keydown(key, elapsed) ==
    /\ navigator.keys < MaxKeys
    /\ LET time == navigator.clock + elapsed
           pressed == [navigator EXCEPT !.clock = time, !.keys = @ + 1]
           list == IF navigator.markerList = <<>>
                   THEN buildMarkerList(navigator) ELSE navigator.markerList
           best == IF navigator.variant = "distance"
                   THEN nearestInDirection(list, key, navigator.center)
                   ELSE bestScored(list, key, navigator.center)
       IN  navigator' =
               IF time - navigator.lastNavigationTime < navigationCooldown
               THEN [pressed EXCEPT !.key = [key |-> key, cooled |-> FALSE, flew |-> FALSE]]
               ELSE IF best = 0
               THEN [pressed EXCEPT !.lastNavigationTime = time,
                                    !.markerList = list,
                                    !.key = [key |-> key, cooled |-> TRUE, flew |-> FALSE]]
               ELSE [pressed EXCEPT !.lastNavigationTime = time,
                                    !.markerList = list,
                                    !.currentMarkerIndex = best - 1,
                                    !.center = [lat |-> list[best].lat,
                                                lng |-> list[best].lng],
                                    !.key = [key |-> key, cooled |-> TRUE, flew |-> TRUE]]
    /\ cleared' = FALSE
    /\ UNCHANGED <<now, ticks, service, spatialUtils, hotspotCall, visualizer, ringApp>>

Record(zip, lat, lng, hasEducation, hasIncome) ==
    [zip |-> zip, lat |-> lat, lng |-> lng, hasEducation |-> hasEducation,
     hasIncome |-> hasIncome]

\* north of the first view at 0.3 and at 4 degrees, east at 3 degrees, at
\* 95 degrees north, without a latitude, and one that meets no criterion
NorthernRecords ==
    << Record(1, Num(438), Num(-986), FALSE, TRUE),
       Record(2, Num(401), Num(-986), TRUE, FALSE),
       Record(3, Num(398), Num(-956), TRUE, TRUE),
       Record(4, Num(950), Num(-986), TRUE, FALSE),
       Record(5, NotANumber, Num(-986), TRUE, FALSE),
       Record(6, Num(388), Num(-986), FALSE, FALSE) >>

\* south at 3 degrees, west at 3 degrees, and one on the equator
SouthernRecords ==
    << Record(7, Num(368), Num(-986), TRUE, FALSE),
       Record(8, Num(398), Num(-1016), FALSE, TRUE),
       Record(9, Num(0), Num(-986), TRUE, TRUE) >>

NavigatorInputs == {NorthernRecords, SouthernRecords}

NextNavigator ==
    \/ \E records \in NavigatorInputs : navVisualizeCombinedData(records)
    \/ \E layerType \in {"education", "income", "both"} : toggleLayer(layerType)
    \/ \E key \in {"w", "a", "s", "d"} :
           \E elapsed \in {navigationCooldown - 1, navigationCooldown} :
               keydown(key, elapsed)

InitNavigator ==
    /\ InitService
    /\ store = EmptyMap
    /\ upstream = "flaky"
    /\ visualizer = NewVisualizer
    /\ ringApp = NewRingApp
    /\ navigator \in {NewNavigator, NewScoreNavigator}

SpecNavigator == InitNavigator /\ [][NextNavigator]_vars

(***************************************************************************)
(* Properties of the markers and of the W/A/S/D keys                       *)
(***************************************************************************)
\* the loaded markers of a visible layer that lie in the key's direction
eligible(nav, key) ==
    {k \in DOMAIN nav.markers :
        /\ nav.layerVisibility[nav.markers[k].markerType]
        /\ isInDirection(key, nav.markers[k], nav.center)}

\* a W/A/S/D key was handled past the cooldown in this step
navigated == navigator'.keys = navigator.keys + 1 /\ navigator'.key.cooled

\* C25: the distance navigator flies to a marker of a visible layer that
\* lies strictly in the key's direction and that no other such marker is
\* closer than; when there is none it does not fly and currentMarkerIndex
\* stays
C25_NearestInDirection ==
    [][(navigator.variant = "distance" /\ navigated) =>
          LET among == eligible(navigator, navigator'.key.key)
          IN  IF among = {}
              THEN /\ ~navigator'.key.flew
                   /\ navigator'.center = navigator.center
                   /\ navigator'.currentMarkerIndex = navigator.currentMarkerIndex
              ELSE /\ navigator'.key.flew
                   /\ \E k \in among :
                          /\ navigator'.center = [lat |-> navigator.markers[k].lat,
                                                  lng |-> navigator.markers[k].lng]
                          /\ navigator'.markerList[navigator'.currentMarkerIndex + 1]
                                 = navigator.markers[k]
                          /\ \A j \in among :
                                 squaredDistance(navigator.markers[k], navigator.center)
                                     <= squaredDistance(navigator.markers[j], navigator.center)]_vars

\* 'w' flew 4 degrees north, past the nearer marker of the hidden layer
C25_Witness ==
    /\ navigator.variant = "distance"
    /\ navigator.key = [key |-> "w", cooled |-> TRUE, flew |-> TRUE]
    /\ navigator.keys = 1
    /\ ~navigator.layerVisibility["education"]
    /\ navigator.center.lat = 438

\* C26: the score navigator flies to a marker only if that marker lies in
\* the direction of the key, and when no marker of the list lies in that
\* direction the center and currentMarkerIndex stay
C26_FliesOnlyInDirection ==
    [][(navigator.variant = "score" /\ navigated) =>
          LET key == navigator'.key.key
              list == navigator'.markerList
          IN  /\ navigator'.key.flew =>
                     isInDirection(key, list[navigator'.currentMarkerIndex + 1],
                                   navigator.center)
              /\ (\A k \in DOMAIN list : ~isInDirection(key, list[k], navigator.center))
                     => /\ navigator'.center = navigator.center
                        /\ navigator'.currentMarkerIndex = navigator.currentMarkerIndex]_vars

\* a position on the globe: both coordinates numbers, within 90 and 180 degrees
onGlobe(record) ==
    /\ ~record.lat.nan /\ ~record.lng.nan
    /\ record.lat.v >= -900 /\ record.lat.v <= 900
    /\ record.lng.v >= -1800 /\ record.lng.v <= 1800

\* C27: of the records of a load, one whose lat or lng is not a number or
\* is outside [-90, 90] / [-180, 180] has no marker, and every other one
\* that meets a criterion has its marker
C27_InvalidGeometryDropped ==
    \A k \in DOMAIN navigator.records :
        LET record == navigator.records[k]
            made == \E m \in DOMAIN navigator.markers :
                        navigator.markers[m].zip = record.zip
        IN  IF onGlobe(record)
            THEN (record.hasEducation \/ record.hasIncome) => made
            ELSE ~made

(***************************************************************************)
(* The hotspot calculation under either application: while a timer is due  *)
(* the event loop runs one                                                 *)
(***************************************************************************)
InitGuard ==
    /\ InitService
    /\ store = EmptyMap
    /\ upstream = "flaky"
    /\ visualizer \in {NewVisualizer, NewCirclesVisualizer}
    /\ ringApp = NewRingApp
    /\ navigator = NewNavigator

\* a findHotspots timer can run: what ENABLED of hotspotTimeout comes to,
\* the computation itself never failing
hotspotTimerDue ==
    \E k \in DOMAIN visualizer.timers :
        due(k) /\ visualizer.timers[k].run = "findHotspots"

\* the event loop runs every timer that stays set: weak fairness of both
\* callbacks, the one of hotspotTimeout written out with hotspotTimerDue
SpecGuard ==
    /\ InitGuard
    /\ [][NextRefresh]_vars
    /\ WF_vars(\E k \in 1..(MaxLoads + MaxClicks) : loadTimeout(k))
    /\ \/ []<>(~hotspotTimerDue)
       \/ []<><<\E k \in 1..(MaxLoads + MaxClicks) : hotspotTimeout(k)>>_vars

\* the same page with the hotspot-list application only
SpecGuardHotspotList ==
    /\ visualizer = NewVisualizer
    /\ SpecGuard

\* C29: whenever isCalculatingHotspots is set it is reset later, under
\* either application, so that a later calculateAndShowHotspots is not
\* ignored for ever
C29_GuardReleased ==
    visualizer.isCalculatingHotspots ~> ~visualizer.isCalculatingHotspots


(***************************************************************************)
(* Endpoint fallback of overlapping fetchCombinedData invocations          *)
(***************************************************************************)
\* the endpoints attempted so far are all different
distinctEndpoints(tried) ==
    \A j, k \in 1..Len(tried) : j # k => tried[j] # tried[k]

\* C30: with two retry chains of fetchWithCorsFallback interleaved on the
\* shared currentProxyIndex, a chain never attempts again an endpoint it
\* already tried, and it has attempted each of the 3 endpoints when it
\* gives up
C30_EndpointExhaustionOverlapping ==
    \A i \in Invs :
        /\ inv[i].pc = "fetch" => distinctEndpoints(inv[i].tried)
        /\ \A g \in inv[i].gaveUp :
              /\ distinctEndpoints(g.tried)
              /\ Range(g.tried) = 0..(Len(proxyUrls) - 1)


\* once the flag is set and no findHotspots timer is left to reset it, no
\* step of the page resets it: the requests that follow return at the guard
GuardStaysSet ==
    [][visualizer.isCalculatingHotspots /\ ~hotspotTimerDue
          /\ (\A k \in DOMAIN visualizer.timers : visualizer.timers[k].run # "findHotspots")
          => visualizer'.isCalculatingHotspots]_vars

====
